---- MODULE Spec2Model ----
(***************************************************************************)
(* Fiscal Harmony / ZIMRA integration (Odoo addon): the fiscalization      *)
(* state machine of account.move and pos.order, the zimra.invoice audit    *)
(* log and the zimra.config collaborator, modelled handler by handler.     *)
(*                                                                         *)
(* One step of the model is one complete handler (an RPC action, a cron    *)
(* run, a create or a write), including every nested call it makes.  The   *)
(* authority's answer to send_fiscal_data is an input of the step.  Only   *)
(* PosOrder.write is also given statement by statement (WriteEnter,        *)
(* WriteLock, WriteSend), for two requests that write one order at once.   *)
(***************************************************************************)
EXTENDS Integers, Sequences, FiniteSets, TLC

VARIABLES docs, logs, config, configs, writers, last,
          tax_mappings, currency_mappings, device_taxes_synced,
          device, http, arg, returned

\* the mapping tables, the fiscal device's answer to GET /fiscaldevice, the
\* requests of the last zimra.config method, and the argument and value of the
\* last method that was followed on its own
side == <<tax_mappings, currency_mappings, device_taxes_synced, device, http, arg, returned>>

vars == <<docs, logs, config, configs, writers, last, side>>

(***************************************************************************)
(* Bounds of the model.                                                    *)
(***************************************************************************)
\* most zimra.invoice rows kept in the table at one time
MaxLogs == 2
\* a submission is not started once zimra_retry_count has reached this value
MaxRetry == 6
\* cap of zimra.invoice.retry_count (log-row retries of one row)
MaxRowRetry == 1
\* most cron runs in a row that attempt one document and leave it failed
MaxTries == 4
\* most zimra.config records
MaxConfigs == 3
\* most rows of one mapping table
MaxMappings == 2

\* the documents of the database (record ids)
DocIds == {1, 2}

\* the document of the specifications that follow one document
MainDocs == {1}

(***************************************************************************)
(* Program constants.                                                      *)
(***************************************************************************)
ManualRetryLimit == 5
CronRetryLimit == 3

(***************************************************************************)
(* Python / ORM values.  NONE is Python's None (a key missing from the     *)
(* response); an empty Char/Text/Datetime field reads as the empty value.  *)
(***************************************************************************)
NONE == "<None>"

Truthy(v) == v \notin {NONE, ""}

\* a or b
PyOr(a, b) == IF Truthy(a) THEN a ELSE b

\* what the ORM keeps of a value written to a Char/Text field
Store(v) == IF v = NONE THEN "" ELSE v

\* str(v) inside an f-string
Fmt(v) == IF v = NONE THEN "None" ELSE v

\* a formatter that loses both parts
FiscalNumberBlank(invoice_number, fiscal_day) == ""

\* f"{invoice_number}/{fiscal_day}"
FiscalNumberOf(invoice_number, fiscal_day) ==
    Fmt(invoice_number) \o "/" \o Fmt(fiscal_day)

(***************************************************************************)
(* The authority's answers, as send_fiscal_data hands them to its caller.  *)
(***************************************************************************)
FiscalDays == {"7"}
InvoiceNumbers == {"42"}
ErrorTexts == {"E1"}
RequestIds == {"R9"}

NoQr == [FiscalDay |-> NONE, InvoiceNumber |-> NONE]

QrValues ==
    {NoQr} \cup {[FiscalDay |-> f, InvoiceNumber |-> i] : f \in FiscalDays, i \in InvoiceNumbers}

Blank ==
    [kind |-> "empty", Error |-> NONE, FiscalDay |-> NONE, InvoiceNumber |-> NONE,
     RequestId |-> NONE, QrData |-> NoQr]

\* send_fiscal_data raised (timeout, connection failure, HTTP error)
RespException == [Blank EXCEPT !.kind = "exception"]
\* the status poll answered with an empty list / null
RespEmpty == Blank
\* the status poll answered with a list holding an object without any key
RespBare == [Blank EXCEPT !.kind = "bare"]
\* no answer: send_fiscal_data was not called
NoAnswer == [Blank EXCEPT !.kind = "none"]
\* send_fiscal_data returned its {"status": "skipped"} dict without any request
RespSkipped == [Blank EXCEPT !.kind = "dict"]

\* the authority's status-poll answers: a list holding one object.  RequestId
\* accompanies an Error; QrData repeats the numbers missing from the top level.
ListResponses ==
    {r \in [kind : {"list"}, Error : ErrorTexts \cup {NONE}, FiscalDay : FiscalDays \cup {NONE},
            InvoiceNumber : InvoiceNumbers \cup {NONE}, RequestId : RequestIds \cup {NONE},
            QrData : QrValues] :
        /\ r.Error = NONE => r.RequestId = NONE
        /\ r.Error # NONE => r.FiscalDay = NONE /\ r.InvoiceNumber = NONE
        /\ r.QrData # NoQr => r.Error = NONE /\ r.FiscalDay = NONE /\ r.InvoiceNumber = NONE}

Responses == {RespException, RespEmpty, RespBare} \cup ListResponses

\* a complete success, and a rejection carrying a provisional reference
RespGood ==
    [Blank EXCEPT !.kind = "list", !.FiscalDay = "7", !.InvoiceNumber = "42"]
RespRejected ==
    [Blank EXCEPT !.kind = "list", !.Error = "E1", !.RequestId = "R9"]

\* the answers drawn in the life-cycle specification
MainResponses == {RespGood, RespRejected}

(***************************************************************************)
(* Messages the handlers write to zimra_error / error_message.             *)
(***************************************************************************)
MsgNoConfigMove == "No active ZIMRA configuration found for this company"
MsgNoConfigPos == "No active FiscalHarmony configuration found"
MsgPrepare == "Failed to prepare invoice data"
MsgNoResponse == "No response received from ZIMRA server"
MsgIncomplete == "Incomplete response from ZIMRA: missing FiscalDay or InvoiceNumber"
MsgUnknown == "Unknown error from ZIMRA"
MsgException == "Exception during fiscalization"
MsgDuplicate == "Invoice already fiscalized in another order"
MsgKeyError == "0"
MsgRowCancelled == "Fiscalization cancelled by user"
MsgNotPosted == "Invoice must be posted to retry fiscalization."

(***************************************************************************)
(* Records.                                                                *)
(***************************************************************************)
MoveModel == "account.move"
PosModel == "pos.order"

\* the fiscal fields common to account.move and pos.order, at their defaults
FiscalDefaults ==
    [zimra_status |-> "pending", zimra_fiscal_number |-> "", zimra_response |-> FALSE,
     zimra_error |-> "", zimra_sent_date |-> FALSE, zimra_fiscalized_date |-> FALSE,
     zimra_retry_count |-> 0, zimra_attempted |-> FALSE]

NewDoc(model, move_type, state, name, amount_total, has_lines, shop_ref) ==
    [model |-> model, move_type |-> move_type, state |-> state, name |-> name,
     amount_total |-> amount_total, has_lines |-> has_lines, shop_ref |-> shop_ref,
     zimra_status |-> FiscalDefaults.zimra_status,
     zimra_fiscal_number |-> FiscalDefaults.zimra_fiscal_number,
     zimra_response |-> FiscalDefaults.zimra_response,
     zimra_error |-> FiscalDefaults.zimra_error,
     zimra_sent_date |-> FiscalDefaults.zimra_sent_date,
     zimra_fiscalized_date |-> FiscalDefaults.zimra_fiscalized_date,
     zimra_retry_count |-> FiscalDefaults.zimra_retry_count,
     zimra_attempted |-> FiscalDefaults.zimra_attempted]

\* a zimra.invoice row as _create_zimra_invoice_log / PosOrder._send_to_zimra create it
NewLog(d) ==
    [doc |-> d, status |-> "pending", zimra_fiscal_number |-> "", error_message |-> "",
     response_data |-> FALSE, sent_date |-> FALSE, fiscalized_date |-> FALSE,
     retry_count |-> 0, old |-> FALSE]

NoCalls == [d \in DocIds |-> 0]
NoFlags == [d \in DocIds |-> <<>>]
NoAnswers == [d \in DocIds |-> NoAnswer]
NoOutcome == [zimra_status |-> "", zimra_error |-> "", zimra_fiscalized_date |-> FALSE]
NoOutcomes == [d \in DocIds |-> NoOutcome]

\* the database a handler works on, with what the handler did so far:
\* calls[d] = submissions of document d that send_fiscal_data put on the
\* network, got[d] = what the last send_fiscal_data for d handed back,
\* out[d] = d's status, error and fiscalized date when the _send_to_zimra that
\* was handed got[d] returned, ret = the return value of the last _send_to_zimra,
\* sends[d] = the calls of d._send_to_zimra(), success_count and fail_count =
\* the counters of the cron run
DB(dcs, lgs) ==
    [docs |-> dcs, logs |-> lgs, calls |-> NoCalls, got |-> NoAnswers,
     out |-> NoOutcomes, ret |-> FALSE, sends |-> NoCalls,
     success_count |-> 0, fail_count |-> 0, raised |-> FALSE, flags |-> NoFlags,
     fired |-> NoCalls]

\* the handler ends by raising an exception to its caller
Raise(s) == [s EXCEPT !.raised = TRUE]

\* _send_to_zimra() was called on document d
Entered(s, d) == [s EXCEPT !.sends[d] = s.sends[d] + 1]

\* send_fiscal_data posted document d's payload, with its IsRetry flag, to
\* the authority
Called(s, d, is_retry) ==
    [s EXCEPT !.calls[d] = s.calls[d] + 1, !.flags[d] = Append(s.flags[d], is_retry)]

\* write() found document d due and set its zimra_attempted marker
Fired(s, d) == [s EXCEPT !.fired[d] = s.fired[d] + 1, !.docs[d].zimra_attempted = TRUE]

\* send_fiscal_data handed `answer` back (or raised) for document d
Got(s, d, answer) == [s EXCEPT !.got[d] = answer]

\* the _send_to_zimra that called send_fiscal_data for document d returns
Returned(s, d) ==
    [s EXCEPT !.out[d] = [zimra_status |-> s.docs[d].zimra_status,
                          zimra_error |-> s.docs[d].zimra_error,
                          zimra_fiscalized_date |-> s.docs[d].zimra_fiscalized_date]]

\* "IsRetry": bool(self.zimra_retry_count > 0) of _prepare_zimra_invoice_data,
\* read when the payload is built
IsRetry(doc) == doc.zimra_retry_count > 0

SetDoc(s, d, f, v) == [s EXCEPT !.docs[d][f] = v]
SetLog(s, i, f, v) == [s EXCEPT !.logs[i][f] = v]
Return(s, v) == [s EXCEPT !.ret = v]

(***************************************************************************)
(* account.move                                                            *)
(***************************************************************************)
\* AccountMove.is_invoice(include_receipts) of the host, by move_type
IsInvoice(move_type, include_receipts) ==
    \/ move_type \in {"out_invoice", "out_refund", "in_invoice", "in_refund"}
    \/ include_receipts /\ move_type \in {"out_receipt", "in_receipt"}

MoveShouldFiscalize(doc) ==
    /\ IsInvoice(doc.move_type, TRUE)
    /\ doc.zimra_status \notin {"fiscalized", "exempted"}
    /\ doc.state = "posted"
    /\ doc.move_type \in {"out_invoice", "out_refund"}

MoveGetActiveConfig == config.active

\* _prepare_zimra_invoice_data raises ValidationError (no tax mappings, no
\* currency mappings, no line items)
MovePrepareRaises(doc) ==
    \/ ~config.has_tax_mappings
    \/ ~config.has_currency_mappings
    \/ ~doc.has_lines

\* a _mark_as_failed that forgets the log row
MoveMarkAsFailedDocOnly(s, d, error_message, row, fiscal_number) ==
    [s EXCEPT !.docs[d].zimra_status = "failed",
              !.docs[d].zimra_error = error_message,
              !.docs[d].zimra_fiscal_number =
                  Store(PyOr(fiscal_number, s.docs[d].zimra_fiscal_number))]

\* _mark_as_failed(error_message, zimra_invoice, fiscal_number); row = 0 is None
MoveMarkAsFailed(s, d, error_message, row, fiscal_number) ==
    LET s1 == [s EXCEPT !.docs[d].zimra_status = "failed",
                        !.docs[d].zimra_error = error_message,
                        !.docs[d].zimra_fiscal_number =
                            Store(PyOr(fiscal_number, s.docs[d].zimra_fiscal_number))]
    IN  IF row = 0 THEN s1
        ELSE [s1 EXCEPT !.logs[row].status = "failed",
                        !.logs[row].error_message = error_message,
                        !.logs[row].zimra_fiscal_number = Store(fiscal_number)]

\* a success test that does not look at Error
MoveAlwaysSuccessful(r) == TRUE

\* _is_fiscalization_successful(response) on the first element of the answer
MoveIsFiscalizationSuccessful(r) == r.kind # "bare" /\ ~Truthy(r.Error)

\* _process_zimra_response(response_data, zimra_invoice)
MoveProcessResponse(s, d, r, row) ==
    IF MoveIsFiscalizationSuccessful(r)
    THEN LET fiscal_day == PyOr(r.FiscalDay, Store(r.QrData.FiscalDay))
             invoice_number == PyOr(r.InvoiceNumber, Store(r.QrData.InvoiceNumber))
         IN  IF ~Truthy(fiscal_day) \/ ~Truthy(invoice_number)
             THEN Return(MoveMarkAsFailed(s, d, MsgIncomplete, row, NONE), FALSE)
             ELSE Return([s EXCEPT
                     !.docs[d].zimra_status = "fiscalized",
                     !.docs[d].zimra_fiscal_number = FiscalNumberOf(invoice_number, fiscal_day),
                     !.docs[d].zimra_fiscalized_date = TRUE,
                     !.docs[d].zimra_error = "",
                     !.logs[row].status = "fiscalized",
                     !.logs[row].zimra_fiscal_number = FiscalNumberOf(invoice_number, fiscal_day),
                     !.logs[row].fiscalized_date = TRUE], TRUE)
    ELSE Return(MoveMarkAsFailed(s, d, IF r.Error = NONE THEN MsgUnknown ELSE r.Error, row,
                                 Store(r.RequestId)), FALSE)

\* the part of _send_to_zimra from the log row's creation to the end
MoveSubmit(s, d, r) ==
    LET row == Len(s.logs) + 1
        s1 == [s EXCEPT !.logs = Append(s.logs, NewLog(d))]
        s2 == [s1 EXCEPT !.docs[d].zimra_sent_date = TRUE,
                         !.docs[d].zimra_retry_count = s.docs[d].zimra_retry_count + 1]
        s3 == [s2 EXCEPT !.logs[row].status = "sent", !.logs[row].sent_date = TRUE]
        \* config.send_fiscal_data(fiscal_invoice, endpoint)
        answer == IF s.docs[d].shop_ref THEN RespSkipped ELSE r
        s4 == Got(IF s.docs[d].shop_ref THEN s3 ELSE Called(s3, d, IsRetry(s.docs[d])),
                 d, answer)
    IN  Returned(
          CASE answer.kind = "exception" ->
                Return(MoveMarkAsFailed(s4, d, MsgException, row, NONE), FALSE)
            [] answer.kind = "empty" ->
                Return(MoveMarkAsFailed(s4, d, MsgNoResponse, row, NONE), FALSE)
            [] OTHER ->
                LET s5 == [s4 EXCEPT !.docs[d].zimra_response = TRUE,
                                     !.logs[row].response_data = TRUE]
                IN  MoveProcessResponse(s5, d, answer, row), d)

\* AccountMove._send_to_zimra
MoveSendToZimra(s0, d, r) ==
    LET s == Entered(s0, d)
    IN  IF ~MoveGetActiveConfig
        THEN Return(MoveMarkAsFailed(s, d, MsgNoConfigMove, 0, NONE), FALSE)
        ELSE IF ~MoveShouldFiscalize(s.docs[d])
        THEN Return(SetDoc(s, d, "zimra_status", "exempted"), TRUE)
        ELSE IF MovePrepareRaises(s.docs[d])
        THEN Return(MoveMarkAsFailed(s, d, MsgPrepare, 0, NONE), FALSE)
        ELSE MoveSubmit(s, d, r)

(***************************************************************************)
(* pos.order                                                               *)
(***************************************************************************)
\* the name the POS configuration's sequence hands out (next_by_id)
SeqName(o) == "POS/" \o ToString(o)

PosShouldFiscalize(doc) ==
    IF doc.zimra_status \in {"fiscalized", "exempted"} THEN FALSE
    ELSE IF doc.state \in {"draft", "cancel"} THEN FALSE
    ELSE IF doc.amount_total < 0 THEN TRUE
    ELSE IF doc.amount_total > 0 /\ doc.state \in {"draft"} THEN FALSE
    ELSE TRUE

\* zimra.config.get_active_config(warehouse.id)
PosGetActiveConfig == config.active

\* the guards of PosOrder.write that let it start a submission
PosWriteTriggers(doc) ==
    /\ ~doc.zimra_attempted
    /\ doc.name \notin {"", "/"}
    /\ doc.state \in {"paid", "done", "invoiced"}
    /\ doc.zimra_status \in {"pending", ""}

\* self.search([name =, zimra_status = fiscalized, id !=], limit=1)
PosExistingFiscalized(s, o) ==
    {x \in DOMAIN s.docs :
        /\ s.docs[x].model = PosModel
        /\ s.docs[x].name = s.docs[o].name
        /\ s.docs[x].zimra_status = "fiscalized"
        /\ x # o}

\* PosOrder._is_fiscalization_successful(response_data)
PosIsFiscalizationSuccessful(r) == r.kind \in {"list", "bare"} /\ ~Truthy(r.Error)

RECURSIVE PosWrite(_, _, _, _, _)
RECURSIVE PosWrites(_, _, _, _)
RECURSIVE PosSendToZimra(_, _, _)

\* a write whose marker stops the loop one submission late
PosWriteLate(s, o, f, v, env) ==
    LET s1 == IF f = "" THEN s ELSE SetDoc(s, o, f, v)
        doc == s1.docs[o]
    IN  IF /\ ~doc.zimra_attempted \/ s1.sends[o] = 1
           /\ doc.name \notin {"", "/"}
           /\ doc.state \in {"paid", "done", "invoiced"}
           /\ doc.zimra_status \in {"pending", ""}
        THEN PosSendToZimra(SetDoc(s1, o, "zimra_attempted", TRUE), o, env)
        ELSE s1

\* PosOrder.write({f: v}) on one order, which every field assignment of the
\* model goes through; f = "" is a write of fields the model does not hold.
\* env.rs[o] are the authority's answers to the handler's requests for o, in order;
\* env.seq tells whether the order's POS configuration has a sequence.
PosWrite(s, o, f, v, env) ==
    LET s1 == IF f = "" THEN s ELSE SetDoc(s, o, f, v)
    IN  IF PosWriteTriggers(s1.docs[o])
        THEN \* order.zimra_attempted = True is a write that finds the marker set
             PosSendToZimra(Fired(s1, o), o, env)
        ELSE s1

\* consecutive field assignments, fvs a sequence of <<field, value>>
PosWrites(s, o, fvs, env) ==
    IF fvs = <<>> THEN s
    ELSE PosWrites(PosWrite(s, o, fvs[1][1], fvs[1][2], env), o, Tail(fvs), env)

\* the except branch of PosOrder._send_to_zimra
PosExceptBranch(s, o, row, error_msg, env) ==
    LET s1 == PosWrites(s, o, <<<<"zimra_status", "failed">>,
                                 <<"zimra_error", error_msg>>>>, env)
    IN  Return([s1 EXCEPT !.logs[row].status = "failed",
                          !.logs[row].error_message = error_msg], FALSE)

\* PosOrder._send_to_zimra after send_fiscal_data returned `answer`
PosInterpret(s, o, row, answer, env) ==
    LET s1 == PosWrite(s, o, "zimra_response", answer.kind # "empty", env)
        s2 == [s1 EXCEPT !.logs[row].response_data = s1.docs[o].zimra_response]
    IN  IF PosIsFiscalizationSuccessful(answer)
        THEN LET number == FiscalNumberOf(answer.InvoiceNumber, answer.FiscalDay)
                 s3 == PosWrites(s2, o, <<<<"zimra_status", "fiscalized">>,
                                          <<"zimra_fiscal_number", number>>,
                                          <<"zimra_fiscalized_date", TRUE>>,
                                          <<"zimra_error", "">>>>, env)
             IN  Return([s3 EXCEPT !.logs[row].status = "fiscalized",
                                   !.logs[row].zimra_fiscal_number = number,
                                   !.logs[row].fiscalized_date =
                                       s3.docs[o].zimra_fiscalized_date], TRUE)
        ELSE IF answer.kind = "dict"
        THEN \* response_data[0] on a dict raises KeyError(0)
             PosExceptBranch(s2, o, row, MsgKeyError, env)
        ELSE LET s3 == PosWrites(s2, o, <<<<"zimra_status", "failed">>,
                                          <<"zimra_fiscal_number", Store(answer.RequestId)>>,
                                          <<"zimra_error", Store(answer.Error)>>>>, env)
             IN  Return([s3 EXCEPT !.logs[row].status = "failed",
                                   !.logs[row].error_message = s3.docs[o].zimra_error,
                                   !.logs[row].zimra_fiscal_number =
                                       s3.docs[o].zimra_fiscal_number], FALSE)

\* the try block of PosOrder._send_to_zimra
PosSubmit(s, o, env) ==
    LET row == Len(s.logs) + 1
        s1 == [s EXCEPT !.logs = Append(s.logs, NewLog(o))]
        s2 == PosWrite(s1, o, "zimra_sent_date", TRUE, env)
        s3 == PosWrite(s2, o, "zimra_retry_count", s2.docs[o].zimra_retry_count + 1, env)
        s4 == [s3 EXCEPT !.logs[row].status = "sent",
                         !.logs[row].sent_date = s3.docs[o].zimra_sent_date]
        \* config.send_fiscal_data(fiscal_invoice, endpoint)
        skipped == s4.docs[o].shop_ref
        answer == IF skipped THEN RespSkipped ELSE env.rs[o][s4.calls[o] + 1]
        s5 == Got(IF skipped THEN s4 ELSE Called(s4, o, IsRetry(s.docs[o])), o, answer)
    IN  Returned(IF answer.kind = "exception"
                 THEN PosExceptBranch(s5, o, row, MsgException, env)
                 ELSE PosInterpret(s5, o, row, answer, env), o)

\* PosOrder._send_to_zimra
PosSendToZimra(s0, o, env) ==
    LET s == Entered(s0, o)
        unnamed == s.docs[o].name \in {"", "/"}
        s1 == IF unnamed /\ env.seq
              THEN PosWrite(s, o, "name", SeqName(o), env)
              ELSE s
    IN  IF unnamed /\ ~env.seq
        THEN Return(s, FALSE)
        ELSE IF PosExistingFiscalized(s1, o) # {}
        THEN Return(PosWrites(s1, o, <<<<"zimra_status", "exempted">>,
                                        <<"zimra_error", MsgDuplicate>>>>, env), TRUE)
        ELSE IF ~PosGetActiveConfig
        THEN Return(PosWrites(s1, o, <<<<"zimra_status", "failed">>,
                                        <<"zimra_error", MsgNoConfigPos>>>>, env), FALSE)
        ELSE IF ~PosShouldFiscalize(s1.docs[o])
        THEN Return(PosWrite(s1, o, "zimra_status", "exempted", env), TRUE)
        ELSE PosSubmit(s1, o, env)

(***************************************************************************)
(* Steps.  `last` records the handler that ran: its name, the document,    *)
(* the requests it put on the network, the last answer it was handed and   *)
(* the document's status before.                                           *)
(***************************************************************************)
Here == DB(docs, logs)

PreStatus(d) == IF d \in DOMAIN docs THEN docs[d].zimra_status ELSE ""

\* the two cron jobs
CronOps == {"move_cron", "pos_cron"}

\* the cron runs in a row, up to this one, that called _send_to_zimra on
\* document x and left it failed
Tries(op, s, x) ==
    IF op \notin CronOps THEN 0
    ELSE IF s.sends[x] = 0 THEN last.tries[x]
    ELSE IF s.docs[x].zimra_status = "failed" THEN last.tries[x] + 1
    ELSE 0

Ran(op, d, s) ==
    [op |-> op, doc |-> d, calls |-> s.calls, got |-> s.got, out |-> s.out,
     pre |-> PreStatus(d), sends |-> s.sends,
     success_count |-> s.success_count, fail_count |-> s.fail_count,
     raised |-> s.raised, flags |-> s.flags, fired |-> s.fired,
     tries |-> [x \in DocIds |-> Tries(op, s, x)]]

\* the result of a handler is kept within the model's bounds
Fits(s) ==
    /\ Len(s.logs) <= MaxLogs
    /\ \A d \in DOMAIN s.docs : s.docs[d].zimra_retry_count <= MaxRetry
    /\ \A i \in 1..Len(s.logs) : s.logs[i].retry_count <= MaxRowRetry

Commit(s, op, d) ==
    /\ Fits(s)
    /\ \A x \in DocIds : Tries(op, s, x) <= MaxTries
    /\ docs' = s.docs
    /\ logs' = s.logs
    /\ last' = Ran(op, d, s)
    /\ UNCHANGED <<config, configs, writers, side>>

Moves == {d \in DOMAIN docs : docs[d].model = MoveModel}
Orders == {d \in DOMAIN docs : docs[d].model = PosModel}

MoveTypes == {"out_invoice", "in_invoice"}

\* AccountMove.create
MoveCreateResult(s, d, move_type, has_lines, shop_ref) ==
    LET doc == NewDoc(MoveModel, move_type, "draft", "INV/1", 115, has_lines, shop_ref)
        status == IF IsInvoice(move_type, FALSE) /\ move_type \in {"out_invoice", "out_refund"}
                  THEN "pending" ELSE "exempted"
    IN  [s EXCEPT !.docs = (d :> [doc EXCEPT !.zimra_status = status]) @@ s.docs]

MoveCreate(d, move_type, has_lines, shop_ref) ==
    /\ d \notin DOMAIN docs
    /\ Commit(MoveCreateResult(Here, d, move_type, has_lines, shop_ref), "move_create", d)

\* AccountMove.action_post (the host posts the draft; the override adds nothing)
MoveActionPost(d) ==
    /\ d \in Moves /\ docs[d].state = "draft"
    /\ Commit(SetDoc(Here, d, "state", "posted"), "action_post", d)

\* a cancellation that also zeroes the retry counter
MoveButtonCancelResetting(s, d) ==
    [s EXCEPT !.docs[d].state = "cancel", !.docs[d].zimra_retry_count = 0]

\* AccountMove.button_cancel
MoveButtonCancelResult(s, d) ==
    LET s1 == SetDoc(s, d, "state", "cancel")
    IN  IF s1.docs[d].zimra_status = "fiscalized"
        THEN SetDoc(s1, d, "zimra_status", "cancelled")
        ELSE s1

MoveButtonCancel(d) ==
    /\ d \in Moves /\ docs[d].state # "cancel"
    /\ Commit(MoveButtonCancelResult(Here, d), "button_cancel", d)

\* AccountMove.button_draft
MoveButtonDraftResult(s, d) ==
    LET s1 == SetDoc(s, d, "state", "draft")
    IN  IF s1.docs[d].zimra_status \in {"fiscalized", "sent", "failed"}
        THEN [s1 EXCEPT !.docs[d].zimra_status = "pending",
                        !.docs[d].zimra_fiscal_number = "",
                        !.docs[d].zimra_response = FALSE,
                        !.docs[d].zimra_error = "",
                        !.docs[d].zimra_sent_date = FALSE,
                        !.docs[d].zimra_fiscalized_date = FALSE,
                        !.docs[d].zimra_retry_count = 0]
        ELSE s1

MoveButtonDraft(d) ==
    /\ d \in Moves /\ docs[d].state # "draft"
    /\ Commit(MoveButtonDraftResult(Here, d), "button_draft", d)

\* AccountMove.action_fiscalize_invoice
MoveActionFiscalizeInvoiceResult(s, d, r) ==
    IF ~IsInvoice(s.docs[d].move_type, FALSE) THEN s
    ELSE IF s.docs[d].zimra_status \in {"fiscalized", "sent"} THEN s
    ELSE IF s.docs[d].state # "posted" THEN s
    ELSE MoveSendToZimra(s, d, r)

MoveActionFiscalizeInvoice(d, r) ==
    /\ d \in Moves
    /\ Commit(MoveActionFiscalizeInvoiceResult(Here, d, r), "action_fiscalize_invoice", d)

\* AccountMove.action_retry_fiscalization
MoveActionRetryResult(s, d, r) ==
    IF s.docs[d].zimra_status \notin {"failed", "pending"} THEN s
    ELSE IF s.docs[d].zimra_retry_count >= ManualRetryLimit THEN s
    ELSE MoveActionFiscalizeInvoiceResult(
             [s EXCEPT !.docs[d].zimra_status = "pending", !.docs[d].zimra_error = ""],
             d, r)

MoveActionRetry(d, r) ==
    /\ d \in Moves
    /\ Commit(MoveActionRetryResult(Here, d, r), "move_action_retry", d)

\* a selection that forgets the retry ceiling
MoveCronSelectionNoCeiling(s) ==
    {d \in DOMAIN s.docs :
        /\ s.docs[d].model = MoveModel
        /\ s.docs[d].zimra_status = "failed"
        /\ s.docs[d].state = "posted"}

\* AccountMove.cron_retry_failed_fiscalization; rs[d] answers invoice d
RECURSIVE MoveCronLoop(_, _, _)
MoveCronLoop(s, todo, rs) ==
    IF todo = {} THEN s
    ELSE LET d == CHOOSE x \in todo : \A y \in todo : x <= y
             s1 == MoveSendToZimra(s, d, rs[d])
             s2 == IF s1.ret
                   THEN [s1 EXCEPT !.success_count = s1.success_count + 1]
                   ELSE [s1 EXCEPT !.fail_count = s1.fail_count + 1]
         IN  MoveCronLoop(s2, todo \ {d}, rs)

MoveCronSelection(s) ==
    {d \in DOMAIN s.docs :
        /\ s.docs[d].model = MoveModel
        /\ s.docs[d].zimra_status = "failed"
        /\ s.docs[d].zimra_retry_count < CronRetryLimit
        /\ s.docs[d].state = "posted"}

MoveCronResult(s, rs) == MoveCronLoop(s, MoveCronSelection(s), rs)

MoveCron(rs) ==
    /\ Moves # {}
    /\ Commit(MoveCronResult(Here, rs), "move_cron", 0)

(***************************************************************************)
(* pos.order handlers                                                      *)
(***************************************************************************)
\* what a handler finds outside the database: rs[d] = the authority's answers
\* to the requests made for document d, in order; seq = the order's POS
\* configuration has a sequence
EnvsOver(R1, R2) ==
    {[rs |-> [d \in DocIds |-> <<r1, r2>>], seq |-> q] :
        r1 \in R1, r2 \in R2, q \in BOOLEAN}

MainEnvs == EnvsOver(MainResponses, {RespGood, RespRejected})

\* zimra.config.search([company_id =, active = True, auto_fiscalize = True])
PosAutoConfig == config.active /\ config.auto_fiscalize

\* PosOrder.create
PosCreateResult(s, d, state, name, amount_total, has_lines, shop_ref, env) ==
    LET doc == NewDoc(PosModel, "", state, name, amount_total, has_lines, shop_ref)
        s1 == [s EXCEPT !.docs = (d :> doc) @@ s.docs]
    IN  IF PosAutoConfig THEN PosSendToZimra(s1, d, env) ELSE s1

PosCreate(d, state, name, amount_total, has_lines, shop_ref, env) ==
    /\ d \notin DOMAIN docs
    /\ Commit(PosCreateResult(Here, d, state, name, amount_total, has_lines, shop_ref, env),
              "pos_create", d)

\* the values the host and its users write to an order: the next lifecycle
\* state, the order's name, or fields the model does not hold
PosWriteVals(doc) ==
    {<<"", "">>}
    \cup (IF doc.name = "/" THEN {<<"name", "ORD/1">>} ELSE {})
    \cup (CASE doc.state = "draft" -> {<<"state", "paid">>, <<"state", "cancel">>}
            [] doc.state = "paid" -> {<<"state", "done">>, <<"state", "invoiced">>}
            [] OTHER -> {})

\* PosOrder.write(vals) called from outside the addon
PosWriteOrder(d, fv, env) ==
    /\ d \in Orders
    /\ fv \in PosWriteVals(docs[d])
    /\ Commit(PosWrite(Here, d, fv[1], fv[2], env), "pos_write", d)

\* PosOrder.action_fiscalize_manual
PosActionFiscalizeManualResult(s, o, env) ==
    IF s.docs[o].zimra_status \in {"fiscalized", "sent"} THEN s
    ELSE PosSendToZimra(s, o, env)

PosActionFiscalizeManual(d, env) ==
    /\ d \in Orders
    /\ Commit(PosActionFiscalizeManualResult(Here, d, env), "action_fiscalize_manual", d)

\* PosOrder.action_retry_fiscalization
\* a retry that clears the marker before it resets the status
PosActionRetryClearing(s, o, env) ==
    IF s.docs[o].zimra_status # "failed" THEN s
    ELSE PosActionFiscalizeManualResult(
             PosWrites(SetDoc(s, o, "zimra_attempted", FALSE), o,
                       <<<<"zimra_status", "pending">>, <<"zimra_error", "">>>>, env),
             o, env)

PosActionRetryResult(s, o, env) ==
    IF s.docs[o].zimra_status # "failed" THEN s
    ELSE PosActionFiscalizeManualResult(
             PosWrites(s, o, <<<<"zimra_status", "pending">>, <<"zimra_error", "">>>>, env),
             o, env)

PosActionRetry(d, env) ==
    /\ d \in Orders
    /\ Commit(PosActionRetryResult(Here, d, env), "pos_action_retry", d)

\* PosOrder.cron_retry_failed_fiscalization
RECURSIVE PosCronLoop(_, _, _)
PosCronLoop(s, todo, env) ==
    IF todo = {} THEN s
    ELSE LET o == CHOOSE x \in todo : \A y \in todo : x <= y
         IN  PosCronLoop(PosSendToZimra(s, o, env), todo \ {o}, env)

PosCronSelection(s) ==
    {o \in DOMAIN s.docs :
        /\ s.docs[o].model = PosModel
        /\ s.docs[o].zimra_status = "failed"
        /\ s.docs[o].zimra_retry_count < CronRetryLimit}

PosCronResult(s, env) == PosCronLoop(s, PosCronSelection(s), env)

PosCron(env) ==
    /\ Orders # {}
    /\ Commit(PosCronResult(Here, env), "pos_cron", 0)

(***************************************************************************)
(* PosOrder.write run by two requests at once.  The method tests the       *)
(* zimra_attempted marker, sets it and calls _send_to_zimra in separate    *)
(* statements and takes no lock, so the requests' statements interleave.   *)
(* writers[p] is request p's position, the order it writes, whether its    *)
(* guards let it through and the requests it put on the network.           *)
(***************************************************************************)
Procs == {1, 2}

Idle == [pc |-> "idle", order |-> 0, passed |-> FALSE, calls |-> 0]

\* res = super().write(vals), then the four guards of the loop body
WriteEnter(p, o, fv) ==
    /\ writers[p].pc \in {"idle", "done"}
    /\ o \in Orders
    /\ fv \in PosWriteVals(docs[o])
    /\ LET s1 == IF fv[1] = "" THEN Here ELSE SetDoc(Here, o, fv[1], fv[2])
           pass == PosWriteTriggers(s1.docs[o])
       IN  /\ docs' = s1.docs
           /\ writers' = [writers EXCEPT ![p] =
                             [pc |-> IF pass THEN "tested" ELSE "done", order |-> o,
                              passed |-> pass, calls |-> 0]]
           /\ last' = Ran("write_enter", o, s1)
    /\ UNCHANGED <<logs, config, configs, side>>

\* order.zimra_attempted = True
WriteLock(p) ==
    /\ writers[p].pc = "tested"
    /\ LET o == writers[p].order
           s1 == SetDoc(Here, o, "zimra_attempted", TRUE)
       IN  /\ docs' = s1.docs
           /\ last' = Ran("write_lock", o, s1)
    /\ writers' = [writers EXCEPT ![p].pc = "locked"]
    /\ UNCHANGED <<logs, config, configs, side>>

\* order._send_to_zimra(), and the return of write
WriteSend(p, env) ==
    /\ writers[p].pc = "locked"
    /\ LET o == writers[p].order
           s1 == PosSendToZimra(Here, o, env)
       IN  /\ Fits(s1)
           /\ docs' = s1.docs
           /\ logs' = s1.logs
           /\ writers' = [writers EXCEPT ![p].pc = "done", ![p].calls = s1.calls[o]]
           /\ last' = Ran("write_send", o, s1)
    /\ UNCHANGED <<config, configs, side>>

(***************************************************************************)
(* zimra.invoice handlers                                                  *)
(***************************************************************************)
\* ZimraInvoice.action_retry_fiscalization on row i
LogActionRetryResult(s, i, env) ==
    IF s.logs[i].status \notin {"failed", "cancelled"} THEN Raise(s)
    ELSE LET d == s.logs[i].doc
             s1 == [s EXCEPT !.logs[i].status = "pending",
                             !.logs[i].retry_count = s.logs[i].retry_count + 1,
                             !.logs[i].error_message = ""]
         IN  IF s.docs[d].model = PosModel
             THEN PosSendToZimra(s1, d, env)
             ELSE IF s.docs[d].state # "posted"
             THEN \* UserError, caught, recorded on the row and raised again
                  Raise([s1 EXCEPT !.logs[i].status = "failed",
                                   !.logs[i].error_message = MsgNotPosted])
             ELSE MoveSendToZimra(s1, d, env.rs[d][1])

LogActionRetry(i, env) ==
    /\ i \in 1..Len(logs)
    /\ Commit(LogActionRetryResult(Here, i, env), "log_action_retry", logs[i].doc)

\* ZimraInvoice.action_cancel_fiscalization on row i
LogActionCancelResult(s, i) ==
    IF s.logs[i].status \in {"pending", "sent", "failed"}
    THEN [s EXCEPT !.logs[i].status = "cancelled",
                   !.logs[i].error_message = MsgRowCancelled]
    ELSE s

LogActionCancel(i) ==
    /\ i \in 1..Len(logs)
    /\ Commit(LogActionCancelResult(Here, i), "log_action_cancel", logs[i].doc)

\* a sweep that does not look at the age of a row
CleanupSelectionAnyAge(row) == row.status \in {"fiscalized", "cancelled"}

\* ZimraInvoice.cleanup_old_records(days): `old` is create_date < cutoff
CleanupSelection(row) == row.old /\ row.status \in {"fiscalized", "cancelled"}

CleanupOldRecordsResult(s) ==
    [s EXCEPT !.logs = SelectSeq(s.logs, LAMBDA row : ~CleanupSelection(row))]

CleanupOldRecords ==
    /\ logs # <<>>
    /\ Commit(CleanupOldRecordsResult(Here), "cleanup_old_records", 0)

\* time passes: the rows written so far become older than the retention period
Tick ==
    /\ \E i \in 1..Len(logs) : ~logs[i].old
    /\ logs' = [i \in 1..Len(logs) |-> [logs[i] EXCEPT !.old = TRUE]]
    /\ last' = Ran("tick", 0, Here)
    /\ UNCHANGED <<docs, config, configs, writers, side>>

(***************************************************************************)
(* zimra.config                                                            *)
(***************************************************************************)
ConfigFields == {"active", "auto_fiscalize", "has_tax_mappings", "has_currency_mappings"}

\* a write to the configuration of the documents' scope (record 1 of the
\* table, the only record while the documents are followed) or to its mapping
\* tables
ConfigWrite(f, v) ==
    /\ config[f] # v
    /\ config' = [config EXCEPT ![f] = v]
    /\ configs' = IF f = "active" THEN [configs EXCEPT ![1].active = v] ELSE configs
    /\ last' = Ran("config_write", 0, Here)
    /\ UNCHANGED <<docs, logs, writers, side>>

\* the warehouses (outlets) a configuration can belong to
Warehouses == {1, 2}

\* the values of a create or write on zimra.config that touch the constrained
\* fields
ConfigVals ==
    {[active |-> a] : a \in BOOLEAN}
    \cup {[warehouse_id |-> w] : w \in Warehouses}
    \cup {[active |-> a, warehouse_id |-> w] : a \in BOOLEAN, w \in Warehouses}

\* a constraint that never finds another active record
ConfigNeverViolates(tbl, ids) == FALSE

\* _check_single_active_per_warehouse / _check_unique_active_per_warehouse on
\* the records `ids` of table tbl: one of them is active and the search finds
\* another active record of its warehouse
ConfigViolates(tbl, ids) ==
    \E c \in ids :
        /\ tbl[c].active
        /\ \E other \in DOMAIN tbl :
              /\ tbl[other].warehouse_id = tbl[c].warehouse_id
              /\ tbl[other].active
              /\ other # c

\* the outcome of an ORM create/write that leaves table tbl with the records
\* `ids` touched: a ValidationError rolls the transaction back
ConfigGuarded(tbl, ids, op) ==
    LET ok == ~ConfigViolates(tbl, ids)
    IN  /\ configs' = IF ok THEN tbl ELSE configs
        /\ config' = [config EXCEPT !.active = \E c \in DOMAIN configs' : configs'[c].active]
        /\ last' = Ran(op, 0, IF ok THEN Here ELSE Raise(Here))
        /\ UNCHANGED <<docs, logs, writers, side>>

\* ZimraConfig.create(vals); a field missing from vals takes its default
ConfigCreate(vals) ==
    /\ Len(configs) < MaxConfigs
    /\ "warehouse_id" \in DOMAIN vals
    /\ LET rec == vals @@ [active |-> TRUE]
       IN  ConfigGuarded(Append(configs, rec), {Len(configs) + 1}, "config_create")

\* ZimraConfig.write(vals) on the records `ids`
ConfigWriteRecords(ids, vals) ==
    /\ ids # {} /\ ids \subseteq DOMAIN configs
    /\ LET tbl == [c \in DOMAIN configs |->
                      IF c \in ids THEN vals @@ configs[c] ELSE configs[c]]
       IN  ConfigGuarded(tbl, ids, "config_write_records")

(***************************************************************************)
(* The specification.                                                      *)
(***************************************************************************)
\* a device that does not answer
NoDevice == [status_code |-> 500, parses |-> FALSE, applicableTaxes |-> <<>>]

NoLast ==
    [op |-> "init", doc |-> 0, calls |-> NoCalls, got |-> NoAnswers, out |-> NoOutcomes,
     pre |-> "", sends |-> NoCalls, success_count |-> 0, fail_count |-> 0,
     raised |-> FALSE, flags |-> NoFlags, fired |-> NoCalls, tries |-> NoCalls]

\* an empty database and a configuration with its mapping tables filled in
Init ==
    /\ docs = <<>>
    /\ logs = <<>>
    /\ config = [active |-> TRUE, auto_fiscalize |-> TRUE,
                 has_tax_mappings |-> TRUE, has_currency_mappings |-> TRUE]
    /\ configs = <<[active |-> TRUE, warehouse_id |-> 1]>>
    /\ writers = [p \in Procs |-> Idle]
    /\ last = NoLast
    /\ tax_mappings = <<>>
    /\ currency_mappings = <<>>
    /\ device_taxes_synced = {}
    /\ device = NoDevice
    /\ http = <<>>
    /\ arg = NONE
    /\ returned = NONE

Next ==
    \/ \E d \in MainDocs, mt \in MoveTypes : MoveCreate(d, mt, TRUE, FALSE)
    \/ \E d \in MainDocs : MoveActionPost(d)
    \/ \E d \in MainDocs : MoveButtonCancel(d)
    \/ \E d \in MainDocs : MoveButtonDraft(d)
    \/ \E d \in MainDocs, r \in MainResponses : MoveActionFiscalizeInvoice(d, r)
    \/ \E d \in MainDocs, r \in MainResponses : MoveActionRetry(d, r)
    \/ \E r \in MainResponses : MoveCron([d \in DocIds |-> r])
    \/ \E d \in MainDocs, st \in {"draft", "paid"}, nm \in {"/", "ORD/1"}, env \in MainEnvs :
           PosCreate(d, st, nm, 115, TRUE, FALSE, env)
    \/ \E d \in MainDocs, fv \in {"", "name", "state"} \X
                              {"", "ORD/1", "paid", "cancel", "done", "invoiced"},
          env \in MainEnvs :
           PosWriteOrder(d, fv, env)
    \/ \E d \in MainDocs, env \in MainEnvs : PosActionFiscalizeManual(d, env)
    \/ \E d \in MainDocs, env \in MainEnvs : PosActionRetry(d, env)
    \/ \E env \in MainEnvs : PosCron(env)
    \/ \E i \in 1..MaxLogs, env \in MainEnvs : LogActionRetry(i, env)
    \/ \E v \in BOOLEAN : ConfigWrite("active", v)

Spec == Init /\ [][Next]_vars

(***************************************************************************)
(* The interpretation of the authority's answers: every answer             *)
(* send_fiscal_data can hand back, on documents with and without lines,    *)
(* with and without a "Shop/" reference, under every configuration.        *)
(***************************************************************************)
WideEnvs == EnvsOver(Responses, MainResponses)

NextResponse ==
    \/ \E d \in MainDocs, mt \in MoveTypes, hl \in BOOLEAN, sr \in BOOLEAN :
           MoveCreate(d, mt, hl, sr)
    \/ \E d \in MainDocs : MoveActionPost(d)
    \/ \E d \in MainDocs, r \in Responses : MoveActionFiscalizeInvoice(d, r)
    \/ \E d \in MainDocs, st \in {"draft", "paid"}, nm \in {"/", "ORD/1"}, sr \in BOOLEAN,
          env \in WideEnvs :
           PosCreate(d, st, nm, 115, TRUE, sr, env)
    \/ \E d \in MainDocs, env \in WideEnvs : PosActionFiscalizeManual(d, env)
    \/ \E f \in ConfigFields, v \in BOOLEAN : ConfigWrite(f, v)

SpecResponse == Init /\ [][NextResponse]_vars

(***************************************************************************)
(* Repeated failure: the authority rejects every submission, and the log   *)
(* table is tidied up (rows cancelled, aged and cleaned) in between.       *)
(***************************************************************************)
FailingEnvs == EnvsOver({RespRejected}, {RespRejected})

NextRetry ==
    \/ \E d \in MainDocs : MoveCreate(d, "out_invoice", TRUE, FALSE)
    \/ \E d \in MainDocs : MoveActionPost(d)
    \/ \E d \in MainDocs : MoveActionFiscalizeInvoice(d, RespRejected)
    \/ \E d \in MainDocs : MoveActionRetry(d, RespRejected)
    \/ MoveCron([d \in DocIds |-> RespRejected])
    \/ \E d \in MainDocs, env \in FailingEnvs : PosCreate(d, "paid", "ORD/1", 115, TRUE, FALSE, env)
    \/ \E d \in MainDocs, env \in FailingEnvs : PosActionFiscalizeManual(d, env)
    \/ \E d \in MainDocs, env \in FailingEnvs : PosActionRetry(d, env)
    \/ \E env \in FailingEnvs : PosCron(env)
    \/ \E i \in 1..MaxLogs, env \in FailingEnvs : LogActionRetry(i, env)
    \/ \E i \in 1..MaxLogs : LogActionCancel(i)
    \/ Tick
    \/ CleanupOldRecords

SpecRetry == Init /\ [][NextRetry]_vars

(***************************************************************************)
(* The cron jobs: every submission fails (no active configuration, no line *)
(* items, an exception of the transport, a rejection); documents are also  *)
(* cancelled or still draft, and the log table is tidied up in between.    *)
(***************************************************************************)
CronResponses == {RespRejected, RespException}

CronEnvs == EnvsOver(CronResponses, {RespRejected})

NextCron ==
    \/ \E d \in MainDocs, hl \in BOOLEAN : MoveCreate(d, "out_invoice", hl, FALSE)
    \/ \E d \in MainDocs : MoveActionPost(d)
    \/ \E d \in MainDocs : MoveButtonCancel(d)
    \/ \E d \in MainDocs : MoveActionFiscalizeInvoice(d, RespRejected)
    \/ \E r \in CronResponses : MoveCron([d \in DocIds |-> r])
    \/ \E d \in MainDocs, st \in {"draft", "paid"}, env \in FailingEnvs :
           PosCreate(d, st, "ORD/1", 115, TRUE, FALSE, env)
    \/ \E d \in MainDocs, env \in FailingEnvs : PosActionFiscalizeManual(d, env)
    \/ \E env \in CronEnvs : PosCron(env)
    \/ \E i \in 1..MaxLogs : LogActionCancel(i)
    \/ Tick
    \/ CleanupOldRecords
    \/ \E v \in BOOLEAN : ConfigWrite("active", v)

SpecCron == Init /\ [][NextCron]_vars

(***************************************************************************)
(* Two requests writing the same order.                                    *)
(***************************************************************************)
NextWrite ==
    \/ \E d \in MainDocs, st \in {"draft", "paid"}, nm \in {"/", "ORD/1"}, env \in MainEnvs :
           PosCreate(d, st, nm, 115, TRUE, FALSE, env)
    \/ \E p \in Procs, d \in MainDocs,
          fv \in {"", "name", "state"} \X {"", "ORD/1", "paid", "cancel", "done", "invoiced"} :
           WriteEnter(p, d, fv)
    \/ \E p \in Procs : WriteLock(p)
    \/ \E p \in Procs, env \in MainEnvs : WriteSend(p, env)
    \/ \E v \in BOOLEAN : ConfigWrite("auto_fiscalize", v)

SpecWrite == Init /\ [][NextWrite]_vars

(***************************************************************************)
(* Payload construction: documents with and without line items, under a    *)
(* configuration with and without tax and currency mappings.               *)
(***************************************************************************)
NextPayload ==
    \/ \E d \in MainDocs, hl \in BOOLEAN : MoveCreate(d, "out_invoice", hl, FALSE)
    \/ \E d \in MainDocs : MoveActionPost(d)
    \/ \E d \in MainDocs, r \in MainResponses : MoveActionFiscalizeInvoice(d, r)
    \/ \E d \in MainDocs, hl \in BOOLEAN, env \in MainEnvs :
           PosCreate(d, "paid", "ORD/1", 115, hl, FALSE, env)
    \/ \E d \in MainDocs, env \in MainEnvs : PosActionFiscalizeManual(d, env)
    \/ \E f \in {"auto_fiscalize", "has_tax_mappings", "has_currency_mappings"}, v \in BOOLEAN :
           ConfigWrite(f, v)

SpecPayload == Init /\ [][NextPayload]_vars

(***************************************************************************)
(* Two documents that carry the same document number, and cron runs that   *)
(* find more than one document to retry.                                   *)
(***************************************************************************)
NextPair ==
    \/ \E d \in DocIds : MoveCreate(d, "out_invoice", TRUE, FALSE)
    \/ \E d \in DocIds : MoveActionPost(d)
    \/ \E d \in DocIds, r \in MainResponses : MoveActionFiscalizeInvoice(d, r)
    \/ \E rs \in [DocIds -> MainResponses] : MoveCron(rs)
    \/ \E d \in DocIds, env \in MainEnvs : PosCreate(d, "paid", "ORD/1", 115, TRUE, FALSE, env)
    \/ \E d \in DocIds, env \in MainEnvs : PosActionFiscalizeManual(d, env)
    \/ \E env \in MainEnvs : PosCron(env)
    \/ \E v \in BOOLEAN : ConfigWrite("active", v)

SpecPair == Init /\ [][NextPair]_vars

(***************************************************************************)
(* The retention sweep: log rows of every status are written, retried,     *)
(* cancelled and aged, and cleanup_old_records runs in between.            *)
(***************************************************************************)
NextCleanup ==
    \/ \E d \in MainDocs : MoveCreate(d, "out_invoice", TRUE, FALSE)
    \/ \E d \in MainDocs : MoveActionPost(d)
    \/ \E d \in MainDocs, r \in MainResponses : MoveActionFiscalizeInvoice(d, r)
    \/ \E i \in 1..MaxLogs, env \in MainEnvs : LogActionRetry(i, env)
    \/ \E i \in 1..MaxLogs : LogActionCancel(i)
    \/ Tick
    \/ CleanupOldRecords

SpecCleanup == Init /\ [][NextCleanup]_vars

(***************************************************************************)
(* The configuration table: records are created, activated, deactivated    *)
(* and moved between warehouses, one request after the other.              *)
(***************************************************************************)
NextConfig ==
    \/ \E vals \in ConfigVals : ConfigCreate(vals)
    \/ \E ids \in SUBSET (1..MaxConfigs), vals \in ConfigVals : ConfigWriteRecords(ids, vals)

SpecConfig == Init /\ [][NextConfig]_vars

(***************************************************************************)
(* zimra.tax.mapping and zimra.currency.mapping: the rows of the two       *)
(* tables, created and written one request after the other.  A row's       *)
(* position in the table stands for its id; unlink closes the gap, which   *)
(* renames ids only (nothing refers to the id of a mapping).               *)
(***************************************************************************)
\* an empty Many2one (record id False)
NoRecord == 0

\* the zimra.config records mappings belong to, the account.tax records and
\* the res.currency records
MapConfigs == {1, 2}
Taxes == {1, 2}
Currencies == {1}

\* str(n) of a natural number
DecimalDigits == <<"0", "1", "2", "3", "4", "5", "6", "7", "8", "9">>

RECURSIVE StrInt(_)
StrInt(n) ==
    IF n < 10 THEN DecimalDigits[n + 1]
    ELSE StrInt(n \div 10) \o DecimalDigits[(n % 10) + 1]

\* str.isupper() on the currency codes users type
CurrencyCodes == {"USD", "usd"}
IsUpper(code) == code \in {"USD"}

\* a zimra.tax.mapping row as a user enters it by hand
ManualTaxMapping(config_id, odoo_tax_id, zimra_tax_rate) ==
    [config_id |-> config_id, odoo_tax_id |-> odoo_tax_id, zimra_tax_code |-> "9",
     zimra_tax_name |-> "Manual", zimra_tax_rate |-> zimra_tax_rate,
     zimra_tax_type |-> "Exempt"]

\* the values of a write on zimra.tax.mapping
TaxMappingVals ==
    {[config_id |-> c] : c \in MapConfigs}
    \cup {[odoo_tax_id |-> t] : t \in Taxes \cup {NoRecord}}
    \cup {[zimra_tax_rate |-> r] : r \in {15, 150}}
    \cup {[config_id |-> c, odoo_tax_id |-> t] : c \in MapConfigs, t \in Taxes \cup {NoRecord}}

\* the values of a create or write on zimra.currency.mapping
CurrencyMappingVals ==
    {[config_id |-> c] : c \in MapConfigs}
    \cup {[odoo_currency_id |-> y] : y \in Currencies}
    \cup {[zimra_currency_code |-> k] : k \in CurrencyCodes}
    \cup {[config_id |-> c, odoo_currency_id |-> y] : c \in MapConfigs, y \in Currencies}

\* _check_tax_rate on the records `ids` of table tbl
TaxRateViolates(tbl, ids) ==
    \E m \in ids : tbl[m].zimra_tax_rate < 0 \/ tbl[m].zimra_tax_rate > 100

\* a uniqueness check that never finds another mapping
TaxNeverDuplicate(tbl, ids) == FALSE

\* _check_unique_tax_mapping on the records `ids` of table tbl: a record
\* without a tax is skipped; otherwise the search finds another mapping of the
\* same configuration and tax
TaxDuplicate(tbl, ids) ==
    \E m \in ids :
        /\ tbl[m].odoo_tax_id # NoRecord
        /\ \E other \in DOMAIN tbl :
              /\ tbl[other].config_id = tbl[m].config_id
              /\ tbl[other].odoo_tax_id = tbl[m].odoo_tax_id
              /\ other # m

\* the @api.constrains methods of zimra.tax.mapping that run when `fields`
\* are among the values of the create or write
TaxMappingViolates(tbl, ids, fields) ==
    \/ "zimra_tax_rate" \in fields /\ TaxRateViolates(tbl, ids)
    \/ fields \cap {"config_id", "odoo_tax_id"} # {} /\ TaxDuplicate(tbl, ids)

\* _check_currency_code: a Char of size 3 never has six characters
CurrencyCodeViolates(tbl, ids) ==
    \E m \in ids : ~IsUpper(tbl[m].zimra_currency_code)

\* _check_unique_currency_mapping on the records `ids` of table tbl
CurrencyDuplicate(tbl, ids) ==
    \E m \in ids :
        \E other \in DOMAIN tbl :
            /\ tbl[other].config_id = tbl[m].config_id
            /\ tbl[other].odoo_currency_id = tbl[m].odoo_currency_id
            /\ other # m

CurrencyMappingViolates(tbl, ids, fields) ==
    \/ "zimra_currency_code" \in fields /\ CurrencyCodeViolates(tbl, ids)
    \/ fields \cap {"config_id", "odoo_currency_id"} # {} /\ CurrencyDuplicate(tbl, ids)

\* table tbl after a write of vals on the records `ids`
Written(tbl, ids, vals) ==
    [m \in DOMAIN tbl |-> IF m \in ids THEN vals @@ tbl[m] ELSE tbl[m]]

\* table tbl holds two rows with the same configuration and the same record
\* in the Many2one field f
TwoAlike(tbl, f) ==
    \E m1, m2 \in DOMAIN tbl :
        /\ m1 # m2
        /\ tbl[m1].config_id = tbl[m2].config_id
        /\ tbl[m1][f] = tbl[m2][f]
        /\ tbl[m1][f] # NoRecord

\* the step of a create or write on a mapping table that asks for the tables
\* `taxes` and `currencies`: a ValidationError rolls the request back.  `arg`
\* keeps whether the request asked for two mappings alike.
MappingGuarded(taxes, currencies, violates, op) ==
    /\ tax_mappings' = IF violates THEN tax_mappings ELSE taxes
    /\ currency_mappings' = IF violates THEN currency_mappings ELSE currencies
    /\ arg' = [alike |-> TwoAlike(taxes, "odoo_tax_id")
                         \/ TwoAlike(currencies, "odoo_currency_id")]
    /\ last' = Ran(op, 0, IF violates THEN Raise(Here) ELSE Here)
    /\ UNCHANGED <<docs, logs, config, configs, writers, device_taxes_synced, device, http, returned>>

\* ZimraTaxMapping.create(vals)
TaxMappingCreate(config_id, odoo_tax_id, zimra_tax_rate) ==
    /\ Len(tax_mappings) < MaxMappings
    /\ config_id \in DOMAIN configs
    /\ LET rec == ManualTaxMapping(config_id, odoo_tax_id, zimra_tax_rate)
           tbl == Append(tax_mappings, rec)
           ids == {Len(tbl)}
       IN  MappingGuarded(tbl, currency_mappings,
                          TaxMappingViolates(tbl, ids, DOMAIN rec),
                          "tax_mapping_create")

\* ZimraTaxMapping.write(vals) on the records `ids`
TaxMappingWrite(ids, vals) ==
    /\ ids # {} /\ ids \subseteq DOMAIN tax_mappings
    /\ "config_id" \in DOMAIN vals => vals.config_id \in DOMAIN configs
    /\ LET tbl == Written(tax_mappings, ids, vals)
       IN  MappingGuarded(tbl, currency_mappings,
                          TaxMappingViolates(tbl, ids, DOMAIN vals),
                          "tax_mapping_write")

\* ZimraCurrencyMapping.create(vals)
CurrencyMappingCreate(config_id, odoo_currency_id, zimra_currency_code) ==
    /\ Len(currency_mappings) < MaxMappings
    /\ config_id \in DOMAIN configs
    /\ LET rec == [config_id |-> config_id, odoo_currency_id |-> odoo_currency_id,
                   zimra_currency_code |-> zimra_currency_code]
           tbl == Append(currency_mappings, rec)
           ids == {Len(tbl)}
       IN  MappingGuarded(tax_mappings, tbl,
                          CurrencyMappingViolates(tbl, ids, DOMAIN rec),
                          "currency_mapping_create")

\* ZimraCurrencyMapping.write(vals) on the records `ids`
CurrencyMappingWrite(ids, vals) ==
    /\ ids # {} /\ ids \subseteq DOMAIN currency_mappings
    /\ "config_id" \in DOMAIN vals => vals.config_id \in DOMAIN configs
    /\ LET tbl == Written(currency_mappings, ids, vals)
       IN  MappingGuarded(tax_mappings, tbl,
                          CurrencyMappingViolates(tbl, ids, DOMAIN vals),
                          "currency_mapping_write")

\* two configurations, one per warehouse, no mapping yet, and a fiscal device
\* that answers d
InitDevice(d) ==
    /\ docs = <<>>
    /\ logs = <<>>
    /\ config = [active |-> TRUE, auto_fiscalize |-> TRUE,
                 has_tax_mappings |-> FALSE, has_currency_mappings |-> FALSE]
    /\ configs = <<[active |-> TRUE, warehouse_id |-> 1], [active |-> TRUE, warehouse_id |-> 2]>>
    /\ writers = [p \in Procs |-> Idle]
    /\ last = NoLast
    /\ tax_mappings = <<>>
    /\ currency_mappings = <<>>
    /\ device_taxes_synced = {}
    /\ device = d
    /\ http = <<>>
    /\ arg = NONE
    /\ returned = NONE

InitMapping == InitDevice(NoDevice)

NextMapping ==
    \/ \E c \in MapConfigs, t \in Taxes \cup {NoRecord}, r \in {15, 150} :
           TaxMappingCreate(c, t, r)
    \/ \E ids \in SUBSET (1..MaxMappings), vals \in TaxMappingVals : TaxMappingWrite(ids, vals)
    \/ \E c \in MapConfigs, y \in Currencies, k \in CurrencyCodes :
           CurrencyMappingCreate(c, y, k)
    \/ \E ids \in SUBSET (1..MaxMappings), vals \in CurrencyMappingVals :
           CurrencyMappingWrite(ids, vals)

SpecMapping == InitMapping /\ [][NextMapping]_vars

(***************************************************************************)
(* ZimraConfig.sync_device_taxes: the device's tax table, as GET           *)
(* /fiscaldevice answers it, replaces the tax mappings of a configuration. *)
(***************************************************************************)
\* the entries of applicableTaxes: with and without a taxID, with taxID 0,
\* with an empty name, and with names that carry a rate
DeviceTaxes ==
    {[taxName |-> "Exempt"],
     [taxID |-> 0, taxName |-> "Exempt"],
     [taxID |-> 1, taxName |-> ""],
     [taxID |-> 1, taxName |-> "Exempt"],
     [taxID |-> 2, taxName |-> "Levy 150%"]}

\* the device tables of two entries at most
DeviceTables ==
    {<<>>} \cup {<<t1>> : t1 \in DeviceTaxes} \cup {<<t1, t2>> : t1, t2 \in DeviceTaxes}

\* the answers to GET /fiscaldevice: a status other than 200 (or no answer),
\* a body whose CurrentConfig does not parse, or a tax table
DeviceStates ==
    {NoDevice, [status_code |-> 200, parses |-> FALSE, applicableTaxes |-> <<>>]}
    \cup {[status_code |-> 200, parses |-> TRUE, applicableTaxes |-> t] : t \in DeviceTables}

\* get_device_taxes: the entries that have a taxID and a taxName; `fetched`
\* is false where the method returns None
GetDeviceTaxes(answer) ==
    IF answer.status_code = 200 /\ answer.parses
    THEN [fetched |-> TRUE,
          taxes |-> SelectSeq(answer.applicableTaxes,
                              LAMBDA tax : {"taxID", "taxName"} \subseteq DOMAIN tax)]
    ELSE [fetched |-> FALSE, taxes |-> <<>>]

(***************************************************************************)
(* TaxMapping.normalize_tax_type.  A text is the sequence of its           *)
(* characters; the tax names of the model are spelled out by Spell.        *)
(***************************************************************************)
MaxWords == 3

\* the words the device's tax names are made of
Words == {"Withholding", "WITHHOLDING", " ", "Tax", "Exempt", "Zero rated", "10%", "15", "Levy"}

\* the characters of the words and of the other tax names of the model
Spell(text) ==
    CASE text = "Withholding" -> <<"W", "i", "t", "h", "h", "o", "l", "d", "i", "n", "g">>
      [] text = "WITHHOLDING" -> <<"W", "I", "T", "H", "H", "O", "L", "D", "I", "N", "G">>
      [] text = " " -> <<" ">>
      [] text = "Tax" -> <<"T", "a", "x">>
      [] text = "Exempt" -> <<"E", "x", "e", "m", "p", "t">>
      [] text = "Zero rated" -> <<"Z", "e", "r", "o", " ", "r", "a", "t", "e", "d">>
      [] text = "10%" -> <<"1", "0", "%">>
      [] text = "15" -> <<"1", "5">>
      [] text = "Levy" -> <<"L", "e", "v", "y">>
      [] text = "" -> <<>>
      [] text = "Levy 150%" -> <<"L", "e", "v", "y", " ", "1", "5", "0", "%">>

\* the tax name made of a sequence of words
RECURSIVE Join(_)
Join(words) == IF words = <<>> THEN <<>> ELSE Spell(Head(words)) \o Join(Tail(words))

\* str.lower()
LowerChar(c) ==
    CASE c = "A" -> "a"
      [] c = "D" -> "d"
      [] c = "E" -> "e"
      [] c = "G" -> "g"
      [] c = "H" -> "h"
      [] c = "I" -> "i"
      [] c = "L" -> "l"
      [] c = "N" -> "n"
      [] c = "O" -> "o"
      [] c = "S" -> "s"
      [] c = "T" -> "t"
      [] c = "V" -> "v"
      [] c = "W" -> "w"
      [] c = "Z" -> "z"
      [] OTHER -> c
LowerText(text) == [i \in DOMAIN text |-> LowerChar(text[i])]

\* str.strip()
RECURSIVE StripLeft(_)
StripLeft(text) ==
    IF text # <<>> /\ Head(text) = " " THEN StripLeft(Tail(text)) ELSE text
RECURSIVE StripRight(_)
StripRight(text) ==
    IF text # <<>> /\ text[Len(text)] = " "
    THEN StripRight(SubSeq(text, 1, Len(text) - 1)) ELSE text
StripText(text) == StripRight(StripLeft(text))

\* part in text
Contains(text, part) ==
    \E i \in 1..(Len(text) - Len(part) + 1) : SubSeq(text, i, i + Len(part) - 1) = part

\* the four values of zimra_tax_type
TaxTypes == {"Exempt", "Standard rated 15%", "Zero rated 0%", "Non-VAT Withholding Tax"}

\* the dict `mapping` of normalize_tax_type, in its order
TaxTypeMapping ==
    <<[key |-> <<"S", "t", "a", "n", "d", "a", "r", "d", " ", "r", "a", "t", "e", "d", " ", "1", "5", "%">>,
       value |-> "Standard rated 15%"],
      [key |-> <<"S", "t", "a", "n", "d", "a", "r", "d", " ", "r", "a", "t", "e", "d", " ", "1", "5", ".", "5", "%">>,
       value |-> "Standard rated 15%"],
      [key |-> <<"S", "t", "a", "n", "d", "a", "r", "d", " ", "r", "a", "t", "e", " ", "1", "5", "%">>,
       value |-> "Standard rated 15%"],
      [key |-> <<"S", "t", "a", "n", "d", "a", "r", "d", " ", "r", "a", "t", "e", " ", "1", "5", ".", "5", "%">>,
       value |-> "Standard rated 15%"],
      [key |-> <<"Z", "e", "r", "o", " ", "r", "a", "t", "e", " ", "0", "%">>,
       value |-> "Zero rated 0%"],
      [key |-> <<"Z", "e", "r", "o", " ", "r", "a", "t", "e", "d", " ", "0", "%">>,
       value |-> "Zero rated 0%"],
      [key |-> <<"Z", "e", "r", "o", " ", "r", "a", "t", "e">>,
       value |-> "Zero rated 0%"],
      [key |-> <<"Z", "e", "r", "o", " ", "r", "a", "t", "e", "d">>,
       value |-> "Zero rated 0%"],
      [key |-> <<"E", "x", "e", "m", "p", "t">>,
       value |-> "Exempt"],
      [key |-> <<"T", "a", "x", " ", "E", "x", "e", "m", "p", "t">>,
       value |-> "Exempt"],
      [key |-> <<"E", "x", "e", "m", "p", "t", "e", "d">>,
       value |-> "Exempt"],
      [key |-> <<"N", "o", "n", "-", "V", "A", "T", " ", "W", "i", "t", "h", "h", "o", "l", "d", "i", "n", "g", " ", "T", "a", "x">>,
       value |-> "Non-VAT Withholding Tax"],
      [key |-> <<"W", "i", "t", "h", "h", "o", "l", "d", "i", "n", "g", " ", "T", "a", "x">>,
       value |-> "Non-VAT Withholding Tax"],
      [key |-> <<"N", "o", "n", " ", "V", "A", "T", " ", "W", "i", "t", "h", "h", "o", "l", "d", "i", "n", "g", " ", "T", "a", "x">>,
       value |-> "Non-VAT Withholding Tax"]>>

\* the value of the first entry of `mapping` among the entries `found`
FirstOf(found) ==
    TaxTypeMapping[CHOOSE i \in found : \A j \in found : i <= j].value

\* normalize_tax_type on the characters of a tax name
NormalizeText(api_tax_name) ==
    LET exact == {i \in DOMAIN TaxTypeMapping : TaxTypeMapping[i].key = api_tax_name}
        api_name_lower == StripText(LowerText(api_tax_name))
        alike == {i \in DOMAIN TaxTypeMapping :
                     StripText(LowerText(TaxTypeMapping[i].key)) = api_name_lower}
    IN  IF exact # {} THEN FirstOf(exact)
        ELSE IF alike # {} THEN FirstOf(alike)
        ELSE IF Contains(api_name_lower, <<"1", "5">>) \/ Contains(api_name_lower, <<"s", "t", "a", "n", "d", "a", "r", "d">>)
        THEN "Standard rated 15%"
        ELSE IF Contains(api_name_lower, <<"z", "e", "r", "o">>) \/ Contains(api_name_lower, <<"0", "%">>)
        THEN "Zero rated 0%"
        ELSE IF Contains(api_name_lower, <<"e", "x", "e", "m", "p", "t">>) THEN "Exempt"
        ELSE IF Contains(api_name_lower, <<"w", "i", "t", "h", "h", "o", "l", "d", "i", "n", "g">>) THEN "Non-VAT Withholding Tax"
        ELSE "Exempt"

\* TaxMapping.normalize_tax_type on a tax name of the model
NormalizeTaxType(tax_name) == NormalizeText(Spell(tax_name))

\* _extract_tax_rate_from_name on the names of DeviceTaxes
ExtractTaxRateFromName(tax_name) ==
    IF tax_name = "Levy 150%" THEN 150 ELSE 0

\* tax_mapping_vals of one entry of the device table
TaxMappingValsOf(config_id, tax_data) ==
    [config_id |-> config_id, odoo_tax_id |-> NoRecord,
     zimra_tax_code |-> StrInt(tax_data.taxID), zimra_tax_name |-> tax_data.taxName,
     zimra_tax_rate |-> ExtractTaxRateFromName(tax_data.taxName),
     zimra_tax_type |-> NormalizeTaxType(tax_data.taxName)]

\* an unlink that deletes nothing
UnlinkNothing(tbl, config_id) == tbl

\* existing_mappings.unlink(): the rows of the other configurations stay
UnlinkMappings(tbl, config_id) ==
    SelectSeq(tbl, LAMBDA m : m.config_id # config_id)

\* the loop over the fetched taxes.  An entry with a falsy taxID or taxName is
\* skipped.  TaxMapping.create inserts the row before the constraints run and
\* the except branch takes no savepoint, so a row whose constraint fails
\* stays in the transaction and is not counted.
RECURSIVE SyncLoop(_, _, _, _)
SyncLoop(tbl, config_id, taxes, created_count) ==
    IF taxes = <<>> THEN [tbl |-> tbl, created_count |-> created_count]
    ELSE LET tax_data == Head(taxes)
             rec == TaxMappingValsOf(config_id, tax_data)
             inserted == Append(tbl, rec)
         IN  IF tax_data.taxID = 0 \/ tax_data.taxName = ""
             THEN SyncLoop(tbl, config_id, Tail(taxes), created_count)
             ELSE IF TaxMappingViolates(inserted, {Len(inserted)},
                                        DOMAIN rec \ {"odoo_tax_id"})
             THEN SyncLoop(inserted, config_id, Tail(taxes), created_count)
             ELSE SyncLoop(inserted, config_id, Tail(taxes), created_count + 1)

TaxesSynced == "Taxes Synced"
SyncFailed == "Sync Failed"

\* sync_device_taxes on configuration config_id.  `arg` keeps the
\* configuration and the number of rows that were deleted.
SyncDeviceTaxes(config_id) ==
    LET answer == device
        got == GetDeviceTaxes(answer)
        existing == SelectSeq(tax_mappings, LAMBDA m : m.config_id = config_id)
        loop == SyncLoop(UnlinkMappings(tax_mappings, config_id), config_id, got.taxes, 0)
    IN  /\ config_id \in DOMAIN configs
        /\ device_taxes_synced' =
              IF answer.status_code = 200 THEN device_taxes_synced \cup {config_id}
              ELSE device_taxes_synced
        /\ IF got.taxes = <<>>
           THEN /\ tax_mappings' = tax_mappings
                /\ returned' = SyncFailed
                /\ arg' = [config_id |-> config_id, deleted |-> 0]
           ELSE /\ Len(loop.tbl) <= MaxMappings
                /\ tax_mappings' = loop.tbl
                /\ returned' = IF loop.created_count = 0 THEN SyncFailed ELSE TaxesSynced
                /\ arg' = [config_id |-> config_id, deleted |-> Len(existing)]
        /\ last' = Ran("sync_device_taxes", 0, Here)
        /\ UNCHANGED <<docs, logs, config, configs, writers, currency_mappings, device, http>>

NextSync ==
    \/ \E c \in MapConfigs, t \in {NoRecord, 1}, r \in {15, 150} :
           TaxMappingCreate(c, t, r)
    \/ \E m \in 1..MaxMappings : TaxMappingWrite({m}, [odoo_tax_id |-> 1])
    \/ \E c \in MapConfigs : SyncDeviceTaxes(c)

\* the device keeps one answer throughout
InitSync == \E d \in DeviceStates : InitDevice(d)

SpecSync == InitSync /\ [][NextSync]_vars

(***************************************************************************)
(* zimra.config on the wire: JSON bodies, signed headers and the requests  *)
(* of send_fiscal_data, save_taxmapping and save_currencymapping.  A dict  *)
(* is the sequence of its items in insertion order; `http` lists what the  *)
(* last method put on the network, each request with the answer it got.    *)
(***************************************************************************)
ApiSecret == "s3cr3t"
UserId == "U1"

\* a JSON value: a str or an int
JsonStr(s) == [t |-> "str", s |-> s, n |-> 0]
JsonInt(n) == [t |-> "int", s |-> "", n |-> n]
Item(key, value) == [key |-> key, value |-> value]

\* json.dumps of a str: ensure_ascii escapes what is not ASCII
AsciiEscape(s) == IF s = "José" THEN "Jos\\u00e9" ELSE s
Quote(s, ensure_ascii) == "\"" \o (IF ensure_ascii THEN AsciiEscape(s) ELSE s) \o "\""

JsonValue(v, ensure_ascii) ==
    IF v.t = "int" THEN StrInt(v.n) ELSE Quote(v.s, ensure_ascii)

RECURSIVE JsonItems(_, _, _, _)
JsonItems(dict, item_separator, key_separator, ensure_ascii) ==
    IF dict = <<>> THEN ""
    ELSE Quote(Head(dict).key, ensure_ascii) \o key_separator
         \o JsonValue(Head(dict).value, ensure_ascii)
         \o (IF Tail(dict) = <<>> THEN ""
             ELSE item_separator
                  \o JsonItems(Tail(dict), item_separator, key_separator, ensure_ascii))

\* json.dumps(dict, separators=(item_separator, key_separator), ensure_ascii=...)
JsonDumps(dict, item_separator, key_separator, ensure_ascii) ==
    "{" \o JsonItems(dict, item_separator, key_separator, ensure_ascii) \o "}"

\* json.dumps(payload), with the defaults
JsonDumpsDefault(dict) == JsonDumps(dict, ", ", ": ", TRUE)

\* json.dumps([token], separators=(',', ':'), ensure_ascii=False)
JsonDumpsList(items) == "[" \o Quote(items[1], FALSE) \o "]"

\* the order of the keys as str compares them
KeyRank(key) ==
    CASE key = "BuyerName" -> 1
      [] key = "InvoiceId" -> 2
      [] key = "Reference" -> 3
      [] OTHER -> 4

\* sorted(dict.items())
RECURSIVE SortKeys(_)
SortKeys(dict) ==
    IF dict = <<>> THEN <<>>
    ELSE LET least == CHOOSE i \in DOMAIN dict :
                         \A j \in DOMAIN dict : KeyRank(dict[i].key) <= KeyRank(dict[j].key)
             rest == [k \in 1..(Len(dict) - 1) |-> IF k < least THEN dict[k] ELSE dict[k + 1]]
         IN  <<dict[least]>> \o SortKeys(rest)

\* __encode_data
EncodeData(dict) == JsonDumps(SortKeys(dict), ",", ":", TRUE)

\* the orderings of a set of items
Orderings(S) ==
    {q \in [1..Cardinality(S) -> S] : \A i, j \in 1..Cardinality(S) : q[i] = q[j] => i = j}

\* the payload dicts handed to send_fiscal_data: an invoice with a buyer, with
\* and without a Reference, its items in every insertion order
Dicts ==
    UNION {Orderings({Item("InvoiceId", JsonStr("INV/1")), Item("BuyerName", JsonStr("José"))} \cup ref) :
             ref \in {{}, {Item("Reference", JsonStr("INV/1"))}, {Item("Reference", JsonStr("Shop/7"))}}}

\* the texts json.loads reads as dict d
Renderings(d) ==
    {JsonDumps(d, ",", ":", FALSE), JsonDumps(d, ",", ":", TRUE),
     JsonDumps(d, ", ", ": ", FALSE), JsonDumps(d, ", ", ": ", TRUE)}

\* json.loads on the texts it accepts
JsonTexts == UNION {Renderings(d) : d \in Dicts}
Loaded == [text \in JsonTexts |-> CHOOSE d \in Dicts : text \in Renderings(d)]

Parses(text) == text \in JsonTexts

\* json.loads(text)
JsonLoads(text) == Loaded[text]

\* the data handed to send_fiscal_data: a dict, a str (the JSON text the
\* document handlers build, a text with other separators, no JSON at all) or
\* a value of another type
Dict(d) == [type |-> "dict", dict |-> d, text |-> ""]
Text(t) == [type |-> "str", dict |-> <<>>, text |-> t]
List(l) == [type |-> "list", dict |-> l, text |-> ""]
Unsupported == [type |-> "other", dict |-> <<>>, text |-> ""]

FiscalData ==
    {Dict(d) : d \in Dicts}
    \cup {Text(JsonDumps(d, ",", ":", FALSE)) : d \in Dicts}
    \cup {Text(JsonDumpsDefault(d)) : d \in {x \in Dicts : Len(x) = 2}}
    \cup {Text("oops"), Unsupported}

\* dict.get(key, ""), read as a str
RECURSIVE Get(_, _)
Get(dict, key) ==
    IF dict = <<>> THEN ""
    ELSE IF Head(dict).key = key THEN Head(dict).value.s
    ELSE Get(Tail(dict), key)

\* ref.startswith("Shop/")
StartsWithShop(ref) == ref \in {"Shop/7"}

\* response.text.strip()
Strip(text) == IF text = " T1\n" THEN "T1" ELSE text

\* int(zimra_tax_code)
IsNumeric(code) == code \in {"9"}
ParseInt(code) == IF code = "9" THEN 9 ELSE 0

\* the answers to a request: a response the client accepts (with the text of
\* its body and, where the body is JSON, its value), a timeout or a 401
HttpAnswer(outcome, text, parses, json) ==
    [outcome |-> outcome, text |-> text, parses |-> parses, json |-> json]

NoHttpAnswer == HttpAnswer("", "", FALSE, NoAnswer)

Failures == {HttpAnswer(o, "", FALSE, NoAnswer) : o \in {"timeout", "unauthorised"}}

PostAnswers == {HttpAnswer("ok", t, FALSE, NoAnswer) : t \in {"T1", " T1\n"}} \cup Failures

PollAnswers ==
    {HttpAnswer("ok", "", TRUE, r) : r \in MainResponses \cup {RespEmpty}}
    \cup {HttpAnswer("ok", "<html>", FALSE, NoAnswer)}
    \cup Failures

\* a signer that ignores the payload
SignNothing(api_secret, payload) == [base64 |-> [hmac_sha256 |-> <<api_secret, "">>]]

\* __sign_payload: base64 of the HMAC-SHA256 digest of the payload under the
\* secret; the digest is one value per key and message
SignPayload(api_secret, payload) == [base64 |-> [hmac_sha256 |-> <<api_secret, payload>>]]

NoSignature == [base64 |-> [hmac_sha256 |-> <<"", "">>]]

\* __get_signed_headers(payload); `signed` keeps the string the signer was given
GetSignedHeaders(payload) ==
    [signed |-> payload, signature |-> SignPayload(ApiSecret, payload)]

\* the events of `http`
Request(url, headers, data, response) ==
    [event |-> "request", route |-> url, signed |-> headers.signed,
     signature |-> headers.signature, body |-> data, seconds |-> 0, answer |-> response]

Sleep(seconds) ==
    [event |-> "sleep", route |-> "", signed |-> "", signature |-> NoSignature,
     body |-> "", seconds |-> seconds, answer |-> NoHttpAnswer]

\* the body __make_signed_request builds of its data
BodyOf(data) ==
    IF data.type = "dict" THEN JsonDumps(data.dict, ",", ":", FALSE)
    ELSE IF data.type = "list" THEN JsonDumpsList(data.dict)
    ELSE IF Parses(data.text) THEN JsonDumps(JsonLoads(data.text), ",", ":", FALSE)
    ELSE data.text

\* __make_signed_request(route, data) answered by `answer`
MakeSignedRequest(route, data, answer) ==
    LET body == BodyOf(data)
        headers == GetSignedHeaders(body)
    IN  Request(route, headers, body, answer)

\* what a method hands back: a dict it made itself, the status poll's JSON,
\* None, or an exception
Local(status, reason) == [kind |-> "local", status |-> status, reason |-> reason, json |-> NoAnswer]
PollResult(json) == [kind |-> "poll", status |-> "", reason |-> "", json |-> json]
Nothing == [kind |-> "none", status |-> "", reason |-> "", json |-> NoAnswer]
Raised == [kind |-> "raised", status |-> "", reason |-> "", json |-> NoAnswer]
Token(text) == [kind |-> "token", status |-> "", reason |-> text, json |-> NoAnswer]

Outcome(events, value) == [http |-> events, returned |-> value]

\* a status check that hands the token back
CheckNothing(token, poll) ==
    Outcome(<<>>, Token(token))

\* check_fiscalisation_status([token], "/status") answered by poll
CheckFiscalisationStatus(token, poll) ==
    LET request == MakeSignedRequest("/status", List(<<token>>), poll)
    IN  IF poll.outcome = "ok" /\ poll.parses
        THEN Outcome(<<request>>, PollResult(poll.json))
        ELSE Outcome(<<request>>, Raised)

\* send_fiscal_data(data, route) when the submission is answered by post and
\* the status poll by poll
SendFiscalDataResult(data, route, post, poll) ==
    IF data.type = "other" THEN Outcome(<<>>, Local("error", "unsupported data type"))
    ELSE IF data.type = "str" /\ ~Parses(data.text)
    THEN Outcome(<<>>, Local("error", "invalid JSON"))
    ELSE LET preview == IF data.type = "str" THEN JsonLoads(data.text) ELSE data.dict
             first == MakeSignedRequest(route, data, post)
             status == CheckFiscalisationStatus(Strip(post.text), poll)
         IN  IF StartsWithShop(Get(preview, "Reference"))
             THEN Outcome(<<>>, Local("skipped", "Shop reference"))
             ELSE IF post.outcome # "ok"
             THEN Outcome(<<first>>, Raised)
             ELSE Outcome(<<first, Sleep(6)>> \o status.http, status.returned)

\* the step of a zimra.config method that talks to the authority
Wire(op, a, out) ==
    /\ http' = out.http
    /\ returned' = out.returned
    /\ arg' = a
    /\ last' = Ran(op, 0, IF out.returned.kind = "raised" THEN Raise(Here) ELSE Here)
    /\ UNCHANGED <<docs, logs, config, configs, writers, tax_mappings, currency_mappings,
                   device_taxes_synced, device>>

SendFiscalData(data, route, post, poll) ==
    /\ data \in FiscalData
    /\ Wire("send_fiscal_data", [data |-> data, route |-> route],
            SendFiscalDataResult(data, route, post, poll))

\* the answers to the POST of save_taxmapping / save_currencymapping: any status
\* code is handed back, a timeout or a connection error is an exception
PushResult(route, payload, answer) ==
    LET headers == GetSignedHeaders(JsonDumpsDefault(payload))
        data == JsonDumpsDefault(payload)
        request == Request(route, headers, data, answer)
    IN  IF answer.outcome = "ok" /\ answer.parses
        THEN Outcome(<<request>>, PollResult(answer.json))
        ELSE Outcome(<<request>>, Raised)

\* account.tax: name and amount as the f-string prints them
TaxLabel(odoo_tax_id) == "VAT (15.0%)"

\* res.currency: name
CurrencyName(odoo_currency_id) == "USD"

\* save_taxmapping(mapping)
SaveTaxMappingResult(mapping, answer) ==
    IF mapping.odoo_tax_id = NoRecord \/ mapping.zimra_tax_code = ""
    THEN Outcome(<<>>, Nothing)
    ELSE IF ~IsNumeric(mapping.zimra_tax_code)
    THEN Outcome(<<>>, Raised)
    ELSE PushResult("/taxmapping",
                    <<Item("UserId", JsonStr(UserId)),
                      Item("TaxCode", JsonStr(mapping.zimra_tax_code)),
                      Item("TaxName", JsonStr(TaxLabel(mapping.odoo_tax_id))),
                      Item("DestinationTaxId", JsonInt(ParseInt(mapping.zimra_tax_code)))>>,
                    answer)

SaveTaxMapping(mapping, answer) ==
    /\ mapping.config_id \in DOMAIN configs
    /\ Wire("save_taxmapping", [data |-> Unsupported, route |-> "/taxmapping"],
            SaveTaxMappingResult(mapping, answer))

\* save_currencymapping(mapping)
SaveCurrencyMappingResult(mapping, answer) ==
    IF mapping.odoo_currency_id = NoRecord \/ mapping.zimra_currency_code = ""
    THEN Outcome(<<>>, Nothing)
    ELSE PushResult("/currencymapping",
                    <<Item("UserId", JsonStr(UserId)),
                      Item("SourceCurrency", JsonStr(CurrencyName(mapping.odoo_currency_id))),
                      Item("DestinationCurrency", JsonStr(mapping.zimra_currency_code))>>,
                    answer)

SaveCurrencyMapping(mapping, answer) ==
    /\ mapping.config_id \in DOMAIN configs
    /\ Wire("save_currencymapping", [data |-> Unsupported, route |-> "/currencymapping"],
            SaveCurrencyMappingResult(mapping, answer))

\* the mapping rows whose button is pressed
PushedTaxMappings ==
    {[ManualTaxMapping(1, t, 15) EXCEPT !.zimra_tax_code = k] :
        t \in {NoRecord, 1}, k \in {"", "9", "VAT"}}

PushedCurrencyMappings ==
    {[config_id |-> 1, odoo_currency_id |-> 1, zimra_currency_code |-> k] : k \in {"", "USD"}}

NextWire ==
    \/ \E data \in FiscalData, route \in {"/invoice", "/creditnote"},
          post \in PostAnswers, poll \in PollAnswers :
           SendFiscalData(data, route, post, poll)
    \/ \E mapping \in PushedTaxMappings, answer \in PollAnswers : SaveTaxMapping(mapping, answer)
    \/ \E mapping \in PushedCurrencyMappings, answer \in PollAnswers :
           SaveCurrencyMapping(mapping, answer)

SpecWire == Init /\ [][NextWire]_vars

(***************************************************************************)
(* The payload builders.  Amounts are exact fractions n/d in lowest terms; *)
(* a float of the code is the fraction it stands for, and the places where *)
(* the code rounds (the host's currency rounding, the f-strings) round.    *)
(* Descriptions, tax codes, product codes, buyer and dates are left out of *)
(* the payloads: no amount depends on them.                                *)
(***************************************************************************)
MaxMoveLines == 2
MaxPosLines == 3

RECURSIVE GCD(_, _)
GCD(a, b) == IF b = 0 THEN a ELSE GCD(b, a % b)

Magnitude(n) == IF n < 0 THEN -n ELSE n

\* the number n/d, d > 0
Frac(n, d) ==
    LET g == GCD(Magnitude(n), d)
    IN  [n |-> n \div g, d |-> d \div g]

Zero == Frac(0, 1)
Cents(c) == Frac(c, 100)
Thousandths(m) == Frac(m, 1000)
Percent(p) == Frac(p, 100)

Add(a, b) == Frac(a.n * b.d + b.n * a.d, a.d * b.d)
Sub(a, b) == Frac(a.n * b.d - b.n * a.d, a.d * b.d)
Mul(a, b) == Frac(a.n * b.n, a.d * b.d)
\* a / b for b > 0
Div(a, b) == Frac(a.n * b.d, a.d * b.n)
Abs(a) == [n |-> Magnitude(a.n), d |-> a.d]

RECURSIVE Sum(_)
Sum(amounts) ==
    IF amounts = <<>> THEN Zero ELSE Add(Head(amounts), Sum(Tail(amounts)))

Pow10(digits) == IF digits = 2 THEN 100 ELSE 1000

\* the multiples of 1/scale nearest to x: one, or two when x lies half way
\* between them (which of the two a float lands on depends on its last bit)
Nearest(x, scale) ==
    LET num == x.n * scale
        floor == num \div x.d
        rest == num % x.d
    IN  IF 2 * rest < x.d THEN {floor}
        ELSE IF 2 * rest > x.d THEN {floor + 1}
        ELSE {floor, floor + 1}

\* f"{x:.2f}" and f"{x:.3f}": a decimal of `digits` places, in units of the last
\* place ("-0.00" and "0.00" are both units = 0)
Format(x, digits) == {[units |-> k, digits |-> digits] : k \in Nearest(x, Pow10(digits))}

\* float(text) of a formatted amount
ParseFloat(dec) == Frac(dec.units, Pow10(dec.digits))

\* currency.round() of the host: to the cent, halves away from zero
CurrencyRound(x) ==
    LET num == Magnitude(x.n) * 100
        floor == num \div x.d
        k == IF 2 * (num % x.d) >= x.d THEN floor + 1 ELSE floor
    IN  Cents(IF x.n < 0 THEN -k ELSE k)

\* the taxes on a line: none, 15% on top of the price, 15% within the price
NoTax == [amount |-> 0, price_include |-> FALSE]
TaxOnTop == [amount |-> 15, price_include |-> FALSE]
TaxIncluded == [amount |-> 15, price_include |-> TRUE]

\* price_unit * quantity * (1 - discount / 100), price_unit in cents and
\* quantity in thousandths
Discounted(price_unit, quantity, discount) ==
    Mul(Mul(Cents(price_unit), Thousandths(quantity)), Percent(100 - discount))

\* the host's price_subtotal (without tax) and price_total / price_subtotal_incl
\* (with tax) of a line
PriceSubtotal(price_unit, quantity, discount, tax) ==
    LET charged == CurrencyRound(Discounted(price_unit, quantity, discount))
    IN  IF tax.price_include
        THEN CurrencyRound(Mul(charged, Frac(100, 100 + tax.amount)))
        ELSE charged

PriceTotal(price_unit, quantity, discount, tax) ==
    LET charged == CurrencyRound(Discounted(price_unit, quantity, discount))
    IN  IF tax.price_include THEN charged
        ELSE Add(charged, CurrencyRound(Mul(charged, Percent(tax.amount))))

\* the sequences over S of length 0..n
SeqsUpTo(S, n) == UNION {[1..k -> S] : k \in 0..n}

\* str.strip(), str.lower(), "refund" in s and s.endswith('REFUND') on the
\* document names
MoveNames == {"INV/1", "Refunds/1"}
PosNames == {"Till/1", "Till/1 REFUND", "Till/1 REFUND ", "Refunds/1"}
StripName(name) == IF name = "Till/1 REFUND " THEN "Till/1 REFUND" ELSE name
Lower(name) ==
    CASE name = "INV/1" -> "inv/1"
      [] name = "Refunds/1" -> "refunds/1"
      [] name = "Till/1" -> "till/1"
      [] name = "Till/1 REFUND" -> "till/1 refund"
      [] OTHER -> name
ContainsRefund(name) == name \in {"refunds/1", "till/1 refund"}
EndsWithREFUND(name) == name \in {"Till/1 REFUND"}

(***************************************************************************)
(* account.move                                                            *)
(***************************************************************************)
\* account.move.line: a section heading or a product line
MoveLines ==
    {[display_type |-> "line_section", price_unit |-> 0, quantity |-> 0,
      discount |-> 0, tax |-> NoTax]}
    \cup [display_type : {"product"}, price_unit : {15, 100}, quantity : {500, -2000},
          discount : {0, 50}, tax : {NoTax, TaxOnTop}]

MoveDocuments ==
    [model : {MoveModel}, move_type : {"out_invoice", "out_refund"}, name : MoveNames,
     lines : SeqsUpTo(MoveLines, MaxMoveLines)]

MoveLineSubtotal(line) ==
    PriceSubtotal(line.price_unit, line.quantity, line.discount, line.tax)
MoveLineTotal(line) ==
    PriceTotal(line.price_unit, line.quantity, line.discount, line.tax)

\* amount_untaxed, amount_tax and amount_total of the host
MoveAmountUntaxed(doc) == Sum([i \in DOMAIN doc.lines |-> MoveLineSubtotal(doc.lines[i])])
MoveAmountTotal(doc) == Sum([i \in DOMAIN doc.lines |-> MoveLineTotal(doc.lines[i])])
MoveAmountTax(doc) == Sub(MoveAmountTotal(doc), MoveAmountUntaxed(doc))

\* AccountMove._prepare_line_item: the line items it can return
PrepareLineItem(move_type, line) ==
    LET is_refund == move_type = "out_refund"
        quantity == IF is_refund THEN Abs(Thousandths(line.quantity))
                    ELSE Thousandths(line.quantity)
        unit_amount == IF is_refund THEN Abs(Cents(line.price_unit))
                       ELSE Cents(line.price_unit)
        gross_amount == Mul(unit_amount, quantity)
        subtotal == IF is_refund THEN Abs(MoveLineSubtotal(line))
                    ELSE MoveLineSubtotal(line)
        discount_amount == Sub(gross_amount, subtotal)
        line_total == IF is_refund THEN Abs(MoveLineTotal(line)) ELSE MoveLineTotal(line)
    IN  {[UnitAmount |-> ua, LineAmount |-> la, DiscountAmount |-> da, Quantity |-> qt] :
            ua \in Format(unit_amount, 3), la \in Format(line_total, 2),
            da \in Format(discount_amount, 2), qt \in Format(quantity, 3)}

\* AccountMove._get_line_items: the lists of line items it can return
RECURSIVE GetLineItems(_, _)
GetLineItems(move_type, lines) ==
    IF lines = <<>> THEN {<<>>}
    ELSE IF Head(lines).display_type \in {"line_section", "line_note"}
    THEN GetLineItems(move_type, Tail(lines))
    ELSE {<<item>> \o rest : item \in PrepareLineItem(move_type, Head(lines)),
                             rest \in GetLineItems(move_type, Tail(lines))}

\* the two shapes of a payload
Invoice(name, line_items, sub_total, total_tax, total) ==
    [InvoiceId |-> name, InvoiceNumber |-> name, LineItems |-> line_items,
     SubTotal |-> sub_total, TotalTax |-> total_tax, Total |-> total]
CreditNote(name, line_items, sub_total, total_tax, total) ==
    [CreditNoteId |-> name, CreditNoteNumber |-> name, LineItems |-> line_items,
     SubTotal |-> sub_total, TotalTax |-> total_tax, Total |-> total]

\* AccountMove._prepare_zimra_invoice_data under a configuration with its
\* mappings: the payloads it can return; none when it raises
MovePrepareZimraInvoiceData(doc) ==
    LET is_credit_note == doc.move_type = "out_refund"
        untaxed == MoveAmountUntaxed(doc)
        tax == MoveAmountTax(doc)
        total == MoveAmountTotal(doc)
    IN  {IF is_credit_note
         THEN CreditNote(doc.name, line_items, st, tt, t)
         ELSE Invoice(doc.name, line_items, st, tt, t) :
            line_items \in GetLineItems(doc.move_type, doc.lines) \ {<<>>},
            st \in Format(IF is_credit_note THEN Abs(untaxed) ELSE untaxed, 2),
            tt \in Format(IF is_credit_note THEN Abs(tax) ELSE tax, 2),
            t \in Format(IF is_credit_note THEN Abs(total) ELSE total, 2)}

\* AccountMove._determine_endpoint and the same lines of PosOrder._send_to_zimra
DetermineEndpoint(invoice_data) ==
    IF "CreditNoteId" \in DOMAIN invoice_data /\ invoice_data.CreditNoteId # ""
    THEN "/creditnote"
    ELSE LET invoice_id == Lower(StripName(IF "InvoiceId" \in DOMAIN invoice_data
                                           THEN invoice_data.InvoiceId ELSE ""))
         IN  IF ContainsRefund(invoice_id) THEN "/creditnote" ELSE "/invoice"

(***************************************************************************)
(* pos.order                                                               *)
(***************************************************************************)
\* '%' in name or 'discount' in name or 'loyalty' in name, on the lower-cased
\* product names
HasDiscountWord(name) == name \in {"Loyalty 10%"}

\* pos.order.line: products sold, given away and returned, a discount product
\* and a loyalty reward
PosLine(name, price_unit, qty, discount, tax) ==
    [name |-> name, price_unit |-> price_unit, qty |-> qty, discount |-> discount,
     tax |-> tax]

PosLines ==
    {PosLine("Widget", 100, 1000, 0, NoTax),
     PosLine("Widget", 100, 3000, 10, TaxIncluded),
     PosLine("Widget", 200, 1000, 0, TaxOnTop),
     PosLine("Widget", 100, -1000, 0, NoTax),
     PosLine("Widget", 0, 1000, 0, NoTax),
     PosLine("Widget", -10, 1000, 0, NoTax),
     PosLine("Loyalty 10%", -25, 1000, 0, NoTax)}

PosDocuments ==
    [model : {PosModel}, move_type : {""}, name : PosNames,
     lines : SeqsUpTo(PosLines, MaxPosLines)]

PosLineSubtotal(line) == PriceSubtotal(line.price_unit, line.qty, line.discount, line.tax)
PriceSubtotalIncl(line) == PriceTotal(line.price_unit, line.qty, line.discount, line.tax)

\* amount_total and amount_tax of the host
PosAmountTotal(order) == Sum([i \in DOMAIN order.lines |-> PriceSubtotalIncl(order.lines[i])])
PosAmountTax(order) ==
    Sub(PosAmountTotal(order),
        Sum([i \in DOMAIN order.lines |-> PosLineSubtotal(order.lines[i])]))

\* PosOrder.__is_receipt_discount_line
IsReceiptDiscountLine(line) ==
    HasDiscountWord(line.name) \/ PriceSubtotalIncl(line).n < 0

\* product_lines, receipt_discount_total and total_before_discount of
\* PosOrder.__get_line_items
ProductLines(order) == SelectSeq(order.lines, LAMBDA line : ~IsReceiptDiscountLine(line))

ReceiptDiscountTotal(order) ==
    LET discounts == SelectSeq(order.lines, IsReceiptDiscountLine)
    IN  Sum([i \in DOMAIN discounts |-> Abs(PriceSubtotalIncl(discounts[i]))])

TotalBeforeDiscount(order) ==
    LET product_lines == ProductLines(order)
        total == Sum([i \in DOMAIN product_lines |-> PriceSubtotalIncl(product_lines[i])])
    IN  IF total.n = 0 THEN Frac(1, 1) ELSE total

\* an allocation in equal parts
EqualDiscount(order, line) ==
    Div(ReceiptDiscountTotal(order), Frac(Len(ProductLines(order)), 1))

\* proportional_discount of a product line
ProportionalDiscount(order, line) ==
    Mul(ReceiptDiscountTotal(order),
        Div(PriceSubtotalIncl(line), TotalBeforeDiscount(order)))

\* the line items PosOrder.__get_line_items can make of one product line
PosLineItem(order, line) ==
    LET proportional_discount == ProportionalDiscount(order, line)
        final_line_amount == Sub(PriceSubtotalIncl(line), proportional_discount)
        line_discount ==
            IF line.discount # 0
            THEN Mul(Mul(Cents(line.price_unit), Thousandths(line.qty)), Percent(line.discount))
            ELSE Zero
    IN  {[UnitAmount |-> ua, LineAmount |-> la, DiscountAmount |-> da, Quantity |-> qt] :
            ua \in Format(Abs(Cents(line.price_unit)), 3),
            la \in Format(Abs(final_line_amount), 2),
            da \in Format(Abs(Add(line_discount, proportional_discount)), 2),
            qt \in Format(Abs(Thousandths(line.qty)), 3)}

RECURSIVE PosLineItems(_, _)
PosLineItems(order, product_lines) ==
    IF product_lines = <<>> THEN {<<>>}
    ELSE {<<item>> \o rest : item \in PosLineItem(order, Head(product_lines)),
                             rest \in PosLineItems(order, Tail(product_lines))}

\* PosOrder.__get_line_items: the lists of line items it can return
PosGetLineItems(order) == PosLineItems(order, ProductLines(order))

\* the proportional_discount of the product lines, in their order
PosShares(order) ==
    LET product_lines == ProductLines(order)
    IN  [i \in DOMAIN product_lines |-> ProportionalDiscount(order, product_lines[i])]

\* PosOrder._prepare_zimra_invoice_data: the payloads it can return
PosPrepareZimraInvoiceData(order) ==
    UNION {
      LET total_discount ==
              Sum([i \in DOMAIN line_items |-> ParseFloat(line_items[i].DiscountAmount)])
          subtotal == Sub(PosAmountTotal(order), total_discount)
          is_refund == EndsWithREFUND(StripName(order.name))
          net == Sub(subtotal, PosAmountTax(order))
      IN  IF is_refund
          THEN {CreditNote(order.name, line_items, st, tt, t) :
                  st \in Format(Abs(net), 2),
                  tt \in Format(Abs(PosAmountTax(order)), 2),
                  t \in Format(Abs(Add(PosAmountTotal(order), total_discount)), 2)}
          ELSE {Invoice(order.name, line_items, st, tt, t) :
                  st \in Format(net, 2),
                  tt \in Format(PosAmountTax(order), 2),
                  t \in Format(PosAmountTotal(order), 2)} :
      line_items \in PosGetLineItems(order)}

(***************************************************************************)
(* _send_to_zimra from the payload's preparation to the call of            *)
(* send_fiscal_data: `arg` is the document, `returned` the payload, the     *)
(* endpoint it is posted to and the receipt discount the builder gave each *)
(* product line.                                                           *)
(***************************************************************************)
Built(invoice_data, shares) ==
    [kind |-> "payload", data |-> invoice_data, endpoint |-> DetermineEndpoint(invoice_data),
     shares |-> shares]

Build(op, payloads, shares) ==
    /\ last.op = "init"
    /\ IF payloads = {}
       THEN returned' = Raised /\ last' = Ran(op, 0, Raise(Here))
       ELSE (\E invoice_data \in payloads : returned' = Built(invoice_data, shares))
            /\ last' = Ran(op, 0, Here)
    /\ UNCHANGED <<docs, logs, config, configs, writers, tax_mappings, currency_mappings,
                   device_taxes_synced, device, http, arg>>

MoveBuild ==
    /\ arg.model = MoveModel
    /\ Build("move_build", MovePrepareZimraInvoiceData(arg), <<>>)

PosBuild ==
    /\ arg.model = PosModel
    /\ Build("pos_build", PosPrepareZimraInvoiceData(arg), PosShares(arg))

InitBuild ==
    /\ docs = <<>>
    /\ logs = <<>>
    /\ config = [active |-> TRUE, auto_fiscalize |-> TRUE,
                 has_tax_mappings |-> TRUE, has_currency_mappings |-> TRUE]
    /\ configs = <<[active |-> TRUE, warehouse_id |-> 1]>>
    /\ writers = [p \in Procs |-> Idle]
    /\ last = NoLast
    /\ tax_mappings = <<>>
    /\ currency_mappings = <<>>
    /\ device_taxes_synced = {}
    /\ device = NoDevice
    /\ http = <<>>
    /\ arg \in MoveDocuments \cup PosDocuments
    /\ returned = NONE

NextBuild ==
    \/ MoveBuild
    \/ PosBuild

SpecBuild == InitBuild /\ [][NextBuild]_vars

(***************************************************************************)
(* The normalization of one device tax name.                               *)
(***************************************************************************)
\* the tax names of the model: up to MaxWords words in a row
TaxNames == SeqsUpTo(Words, MaxWords)

\* TaxMapping.normalize_tax_type(api_tax_name), called with the name `arg`
Normalize ==
    /\ last.op = "init"
    /\ returned' = NormalizeText(Join(arg))
    /\ last' = Ran("normalize_tax_type", 0, Here)
    /\ UNCHANGED <<docs, logs, config, configs, writers, tax_mappings, currency_mappings,
                   device_taxes_synced, device, http, arg>>

InitNormalize ==
    /\ docs = <<>>
    /\ logs = <<>>
    /\ config = [active |-> TRUE, auto_fiscalize |-> TRUE,
                 has_tax_mappings |-> TRUE, has_currency_mappings |-> TRUE]
    /\ configs = <<[active |-> TRUE, warehouse_id |-> 1]>>
    /\ writers = [p \in Procs |-> Idle]
    /\ last = NoLast
    /\ tax_mappings = <<>>
    /\ currency_mappings = <<>>
    /\ device_taxes_synced = {}
    /\ device = NoDevice
    /\ http = <<>>
    /\ arg \in TaxNames
    /\ returned = NONE

NextNormalize == Normalize

SpecNormalize == InitNormalize /\ [][NextNormalize]_vars

(***************************************************************************)
(* The life cycle without button_cancel: documents are created, posted,    *)
(* paid, submitted, retried by hand, from a log row and by the cron jobs,  *)
(* reset by button_draft, while the configuration is switched on and off.  *)
(***************************************************************************)
NextResubmit ==
    \/ \E d \in MainDocs, mt \in MoveTypes : MoveCreate(d, mt, TRUE, FALSE)
    \/ \E d \in MainDocs : MoveActionPost(d)
    \/ \E d \in MainDocs : MoveButtonDraft(d)
    \/ \E d \in MainDocs, r \in MainResponses : MoveActionFiscalizeInvoice(d, r)
    \/ \E d \in MainDocs, r \in MainResponses : MoveActionRetry(d, r)
    \/ \E r \in MainResponses : MoveCron([d \in DocIds |-> r])
    \/ \E d \in MainDocs, st \in {"draft", "paid"}, nm \in {"/", "ORD/1"}, env \in MainEnvs :
           PosCreate(d, st, nm, 115, TRUE, FALSE, env)
    \/ \E d \in MainDocs, fv \in {"", "name", "state"} \X
                              {"", "ORD/1", "paid", "done", "invoiced"},
          env \in MainEnvs :
           PosWriteOrder(d, fv, env)
    \/ \E d \in MainDocs, env \in MainEnvs : PosActionFiscalizeManual(d, env)
    \/ \E d \in MainDocs, env \in MainEnvs : PosActionRetry(d, env)
    \/ \E env \in MainEnvs : PosCron(env)
    \/ \E i \in 1..MaxLogs, env \in MainEnvs : LogActionRetry(i, env)
    \/ \E v \in BOOLEAN : ConfigWrite("active", v)

SpecResubmit == Init /\ [][NextResubmit]_vars

(***************************************************************************)
(* POS orders are created and written while the configuration is switched  *)
(* on and off and its auto_fiscalize flag is set and cleared.              *)
(***************************************************************************)
NextAuto ==
    \/ \E d \in MainDocs, st \in {"draft", "paid"}, nm \in {"/", "ORD/1"}, env \in MainEnvs :
           PosCreate(d, st, nm, 115, TRUE, FALSE, env)
    \/ \E d \in MainDocs, fv \in {"", "name", "state"} \X
                              {"", "ORD/1", "paid", "cancel", "done", "invoiced"},
          env \in MainEnvs :
           PosWriteOrder(d, fv, env)
    \/ \E f \in {"active", "auto_fiscalize"}, v \in BOOLEAN : ConfigWrite(f, v)

SpecAuto == Init /\ [][NextAuto]_vars

(***************************************************************************)
(* Properties.                                                             *)
(***************************************************************************)
\* the fiscal fields of a document
FiscalView(doc) ==
    <<doc.zimra_status, doc.zimra_fiscal_number, doc.zimra_response, doc.zimra_error,
      doc.zimra_sent_date, doc.zimra_fiscalized_date, doc.zimra_retry_count>>

\* the fiscal fields after a reset
ClearedView == <<"pending", "", FALSE, "", FALSE, FALSE, 0>>

\* C1 as stated: a document carries a fiscal number if and only if it is
\* fiscalized (so a pending, failed, exempted or cancelled one carries none).
C1_NumberIffFiscalized ==
    \A d \in DOMAIN docs :
        docs[d].zimra_fiscal_number # "" <=> docs[d].zimra_status = "fiscalized"

\* C1: in every reachable state a fiscalized document (invoice or POS order)
\* carries a non-empty fiscal number.
C1_FiscalizedHasNumber ==
    \A d \in DOMAIN docs :
        docs[d].zimra_status = "fiscalized" => docs[d].zimra_fiscal_number # ""

C1_Witness ==
    \E d \in DOMAIN docs :
        /\ last.calls[d] > 0
        /\ docs[d].zimra_status = "fiscalized"
        /\ docs[d].zimra_fiscal_number = FiscalNumberOf("42", "7")

\* the handlers through which submission is invoked on a document
SubmitOps ==
    {"action_fiscalize_invoice", "action_fiscalize_manual", "log_action_retry",
     "pos_write", "move_cron", "pos_cron"}

\* C2: invoking submission on a fiscalized document (manual fiscalize action,
\* log-row retry, POS write trigger, cron) makes no network call and leaves the
\* document's status, fiscal number and other fiscal fields unchanged.
C2_FiscalizedSubmitIsNoOp ==
    [][\A d \in DOMAIN docs :
          (/\ docs[d].zimra_status = "fiscalized"
           /\ last'.op \in SubmitOps
           /\ last'.doc \in {d, 0})
          => /\ last'.calls[d] = 0
             /\ FiscalView(docs'[d]) = FiscalView(docs[d])]_vars

\* C3: when two write() calls on the same order both pass the zimra_attempted
\* test (each tested before the other set the marker) and both have returned,
\* exactly one submission went on the network for that order.
C3_OneSubmission ==
    \A o \in DocIds :
        (\A p \in Procs : /\ writers[p].order = o
                          /\ writers[p].passed
                          /\ writers[p].pc = "done")
        => writers[1].calls + writers[2].calls = 1

\* the fiscal numbers made of two values of the authority
WellFormedNumbers == {FiscalNumberOf(i, f) : i \in InvoiceNumbers, f \in FiscalDays}

\* an answer without Error that lacks FiscalDay or InvoiceNumber
Incomplete(r) ==
    /\ r.kind = "list"
    /\ ~Truthy(r.Error)
    /\ \/ ~Truthy(r.FiscalDay) /\ ~Truthy(r.QrData.FiscalDay)
       \/ ~Truthy(r.InvoiceNumber) /\ ~Truthy(r.QrData.InvoiceNumber)

\* C4: a fiscalized document's fiscal number is "<InvoiceNumber>/<FiscalDay>"
\* with both parts values of the authority, and an answer with empty Error that
\* lacks FiscalDay or InvoiceNumber leaves the document failed with the
\* incomplete-response error.
C4_CompleteNumber ==
    \A d \in DOMAIN docs :
        /\ docs[d].zimra_status = "fiscalized"
           => docs[d].zimra_fiscal_number \in WellFormedNumbers
        /\ (last.calls[d] > 0 /\ Incomplete(last.got[d]))
           => /\ docs[d].zimra_status = "failed"
              /\ docs[d].zimra_error = MsgIncomplete

\* an answer that carries InvoiceNumber and FiscalDay
Carries(r) ==
    \/ Truthy(r.FiscalDay) /\ Truthy(r.InvoiceNumber)
    \/ Truthy(r.QrData.FiscalDay) /\ Truthy(r.QrData.InvoiceNumber)

C6_AttemptEnds ==
    [][\A d \in DOMAIN docs' :
          /\ docs'[d].zimra_status # "sent"
          /\ last'.calls[d] > 0
             => /\ docs'[d].zimra_status \in {"fiscalized", "failed", "exempted"}
                /\ \A i \in (Len(logs) + 1)..Len(logs') :
                      logs'[i].doc = d => logs'[i].status \in {"fiscalized", "failed"}]_vars

C6_Witness ==
    \E d \in DOMAIN docs :
        /\ last.calls[d] > 0
        /\ last.got[d] = RespException
        /\ docs[d].zimra_status = "failed"
        /\ \E i \in 1..Len(logs) :
              logs[i].doc = d /\ logs[i].status = "failed" /\ logs[i].sent_date = TRUE

\* the handlers that resubmit a failed document
RetryOps ==
    {"move_action_retry", "pos_action_retry", "log_action_retry", "move_cron", "pos_cron",
     "action_fiscalize_invoice", "action_fiscalize_manual"}

\* the handlers that put a document back to pending
ResetOps == {"button_draft", "move_action_retry", "pos_action_retry"}

\* the status changes C7 lists, seen from outside a handler ('sent' lies
\* inside it; a retry passes through pending before it submits again)
AllowedChange(a, b, op) ==
    \/ a = "pending" /\ b \in {"fiscalized", "failed", "exempted"}
    \/ a = "failed" /\ b = "exempted"
    \/ a = "fiscalized" /\ b = "cancelled" /\ op = "button_cancel"
    \/ b = "pending" /\ op \in ResetOps
    \/ a = "failed" /\ b = "fiscalized" /\ op \in RetryOps

\* C7: every change of a document's status is one of pending->fiscalized,
\* pending->failed, pending->exempted, failed->exempted, fiscalized->cancelled
\* (by button_cancel), or a return to pending by a retry/reset; a fiscalized
\* document never becomes exempted or failed, an exempted one never failed.
C7_StatusChanges ==
    [][\A d \in DOMAIN docs \cap DOMAIN docs' :
          docs[d].zimra_status # docs'[d].zimra_status
          => AllowedChange(docs[d].zimra_status, docs'[d].zimra_status, last'.op)]_vars

\* C8: button_draft returns a failed or exempted document to pending with the
\* fiscal number, response, error, timestamps and retry count cleared, and
\* leaves the fiscal fields of a fiscalized or cancelled document unchanged.
C8_ResetFrame ==
    [][\A d \in DOMAIN docs :
          (last'.op = "button_draft" /\ last'.doc = d)
          => /\ docs[d].zimra_status \in {"failed", "exempted"}
                => FiscalView(docs'[d]) = ClearedView
             /\ docs[d].zimra_status \in {"fiscalized", "cancelled"}
                => FiscalView(docs'[d]) = FiscalView(docs[d])]_vars

\* C9 as stated: zimra_retry_count never decreases across any operation.
C9_NeverDecreases ==
    [][\A d \in DOMAIN docs \cap DOMAIN docs' :
          docs'[d].zimra_retry_count >= docs[d].zimra_retry_count]_vars

\* C9: zimra_retry_count never decreases across any operation other than
\* button_draft, and button_draft either keeps it or sets it to 0.
C9_DecreasesOnlyOnReset ==
    [][\A d \in DOMAIN docs \cap DOMAIN docs' :
          /\ last'.op # "button_draft"
             => docs'[d].zimra_retry_count >= docs[d].zimra_retry_count
          /\ last'.op = "button_draft"
             => docs'[d].zimra_retry_count \in {docs[d].zimra_retry_count, 0}]_vars

C9_Witness ==
    \E d \in DOMAIN docs :
        /\ last.op = "button_draft"
        /\ last.pre = "failed"
        /\ docs[d].zimra_retry_count = 0
        /\ docs[d].zimra_status = "pending"

\* the user's actions
UserOps ==
    {"move_action_retry", "action_fiscalize_invoice", "pos_action_retry",
     "action_fiscalize_manual", "log_action_retry"}

\* C10: no user action (invoice retry or fiscalize, POS retry or manual
\* fiscalize, log-row retry) puts a submission on the network for a document
\* whose zimra_retry_count is already 5 or more.
C10_ManualCeiling ==
    [][\A d \in DOMAIN docs :
          (last'.op \in UserOps /\ last'.calls[d] > 0)
          => docs[d].zimra_retry_count < ManualRetryLimit]_vars

\* the active configurations of warehouse w
ActiveConfigs(w) ==
    {c \in DOMAIN configs : configs[c].active /\ configs[c].warehouse_id = w}

\* the creates and writes on zimra.config records
ConfigOps == {"config_create", "config_write_records"}

\* C20: after any sequence of creates and writes on configurations at most
\* one active configuration exists per warehouse, and a create or write that
\* is rejected with ValidationError leaves the stored configurations unchanged.
C20_SingleActivePerWarehouse ==
    /\ [](\A w \in Warehouses : Cardinality(ActiveConfigs(w)) <= 1)
    /\ [][(last'.op \in ConfigOps /\ last'.raised) => configs' = configs]_vars

C20_Witness ==
    /\ last.op = "config_write_records"
    /\ last.raised
    /\ \E c1, c2 \in DOMAIN configs :
          /\ c1 # c2
          /\ configs[c1].warehouse_id = configs[c2].warehouse_id
          /\ configs[c1].active
          /\ ~configs[c2].active

\* a document whose lifecycle is finalized: a posted invoice, a paid, done or
\* invoiced POS order
Finalized(doc) ==
    IF doc.model = MoveModel THEN doc.state = "posted"
    ELSE doc.state \in {"paid", "done", "invoiced"}

C12_CronTriesBounded ==
    \A d \in DOMAIN docs : last.tries[d] <= CronRetryLimit

\* a document whose submission failed for want of an active configuration
FailedNoConfig(doc) ==
    /\ doc.zimra_status = "failed"
    /\ doc.zimra_error \in {MsgNoConfigMove, MsgNoConfigPos}

\* C13: a cron run never calls _send_to_zimra on a document that failed
\* because no active configuration exists.
C13_NoConfigNotRetried ==
    [][\A d \in DOMAIN docs :
          (last'.op \in CronOps /\ FailedNoConfig(docs[d])) => last'.sends[d] = 0]_vars

\* C14: no submission goes on the network for a document (invoice or POS
\* order) while the configuration has no tax mappings or no currency mappings,
\* or for a document without line items (a payload whose LineItems is empty).
C14_NoCallWithoutPayload ==
    \A d \in DOMAIN docs :
        last.calls[d] > 0
        => /\ config.has_tax_mappings
           /\ config.has_currency_mappings
           /\ docs[d].has_lines

\* another document of d's kind with d's number is fiscalized when the handler
\* starts
DuplicateFiscalized(d) ==
    \E x \in DOMAIN docs :
        /\ x # d
        /\ docs[x].model = docs'[d].model
        /\ docs[x].name = docs'[d].name
        /\ docs[x].zimra_status = "fiscalized"

\* C15: when _send_to_zimra runs on a document (invoice or POS order) while
\* another document with the same number is fiscalized, the document ends
\* exempted, no request goes on the network and its retry count stays.
C15_DuplicateExempted ==
    [][\A d \in DOMAIN docs' :
          (last'.sends[d] > 0 /\ DuplicateFiscalized(d))
          => /\ docs'[d].zimra_status = "exempted"
             /\ last'.calls[d] = 0
             /\ docs'[d].zimra_retry_count =
                    IF d \in DOMAIN docs THEN docs[d].zimra_retry_count ELSE 0]_vars

\* the documents the cron run of last'.op selects
CronSelection(op) ==
    IF op = "move_cron" THEN MoveCronSelection(Here) ELSE PosCronSelection(Here)

\* C16: a cron run calls _send_to_zimra exactly once on every document it
\* selected and on no other, counts every selected document as one success
\* or one failure, and raises nothing to its caller.
C16_CronOncePerDocument ==
    [][last'.op \in CronOps
       => /\ \A d \in DocIds :
                last'.sends[d] = IF d \in CronSelection(last'.op) THEN 1 ELSE 0
          /\ last'.success_count + last'.fail_count = Cardinality(CronSelection(last'.op))
          /\ ~last'.raised]_vars

\* document d's status changed in the step (d existed before it)
StatusChanged(d) ==
    /\ d \in DOMAIN docs
    /\ docs'[d].zimra_status # docs[d].zimra_status

\* the step created a log row for d or updated one of d's rows
RowWritten(d) ==
    \E i \in 1..Len(logs') :
        /\ logs'[i].doc = d
        /\ (i > Len(logs) \/ logs'[i] # logs[i])

\* C17: every operation that changes a document's zimra_status creates or
\* updates a zimra.invoice row of that document.
C17_TransitionLogged ==
    [][\A d \in DOMAIN docs' : StatusChanged(d) => RowWritten(d)]_vars

\* the rows of document d that are pending or sent
OpenRows(d) ==
    {i \in 1..Len(logs) : logs[i].doc = d /\ logs[i].status \in {"pending", "sent"}}

\* C18: at any time at most one log row per document is in a non-terminal
\* status (pending or sent), also after log-row retries.
C18_OneOpenRow ==
    \A d \in DOMAIN docs : Cardinality(OpenRows(d)) <= 1

\* the rows the sweep has to keep: the young ones and those that are not
\* fiscalized or cancelled
Kept ==
    {i \in 1..Len(logs) :
        ~logs[i].old \/ logs[i].status \notin {"fiscalized", "cancelled"}}

\* C19: cleanup_old_records deletes exactly the rows that are older than the
\* cutoff and fiscalized or cancelled; every other row survives unchanged, in
\* its order, and no document is touched.
C19_CleanupFrame ==
    [][last'.op = "cleanup_old_records"
       => /\ Len(logs') = Cardinality(Kept)
          /\ \A i \in Kept : logs'[Cardinality({j \in Kept : j <= i})] = logs[i]
          /\ docs' = docs]_vars

C19_Witness ==
    /\ last.op = "cleanup_old_records"
    /\ Len(logs) = 1
    /\ logs[1].status = "failed" /\ logs[1].old
    /\ \E d \in DOMAIN docs :
          docs[d].zimra_status = "fiscalized" /\ docs[d].zimra_retry_count = 2

\* the tax mappings of configuration c for local tax t, and its currency
\* mappings for local currency y
TaxMappingsOf(c, t) ==
    {m \in DOMAIN tax_mappings :
        tax_mappings[m].config_id = c /\ tax_mappings[m].odoo_tax_id = t}

CurrencyMappingsOf(c, y) ==
    {m \in DOMAIN currency_mappings :
        currency_mappings[m].config_id = c /\ currency_mappings[m].odoo_currency_id = y}

TaxMappingOps == {"tax_mapping_create", "tax_mapping_write"}
CurrencyMappingOps == {"currency_mapping_create", "currency_mapping_write"}

\* C21: after any sequence of creates and writes on the mapping tables each
\* configuration has at most one tax mapping per local tax and at most one
\* currency mapping per local currency, and a create or write that asks for
\* a second one is rejected with ValidationError and stores nothing.
C21_UniqueMappings ==
    /\ [](\A c \in MapConfigs :
             /\ \A t \in Taxes : Cardinality(TaxMappingsOf(c, t)) <= 1
             /\ \A y \in Currencies : Cardinality(CurrencyMappingsOf(c, y)) <= 1)
    /\ [][(last'.op \in TaxMappingOps \cup CurrencyMappingOps /\ arg'.alike)
             => /\ last'.raised
                /\ tax_mappings' = tax_mappings
                /\ currency_mappings' = currency_mappings]_vars

C21_Witness ==
    /\ last.op = "tax_mapping_write"
    /\ last.raised
    /\ arg.alike
    /\ \E c1, c2 \in MapConfigs, t \in Taxes :
          c1 # c2 /\ TaxMappingsOf(c1, t) # {} /\ TaxMappingsOf(c2, t) # {}
    /\ Len(currency_mappings) = MaxMappings

\* the rows of table tbl that belong to configuration c, and the other rows
MappingsOf(tbl, c) == SelectSeq(tbl, LAMBDA m : m.config_id = c)
MappingsNotOf(tbl, c) == SelectSeq(tbl, LAMBDA m : m.config_id # c)

\* an entry of the fetched table that sync_device_taxes does not skip
ValidEntry(tax) ==
    /\ {"taxID", "taxName"} \subseteq DOMAIN tax
    /\ tax.taxID # 0
    /\ tax.taxName # ""

\* one mapping per valid entry of the table, in the table's order
RECURSIVE OnePerValidEntry(_, _)
OnePerValidEntry(c, taxes) ==
    IF taxes = <<>> THEN <<>>
    ELSE IF ValidEntry(Head(taxes))
    THEN <<[config_id |-> c, odoo_tax_id |-> NoRecord,
            zimra_tax_code |-> StrInt(Head(taxes).taxID),
            zimra_tax_name |-> Head(taxes).taxName,
            zimra_tax_rate |-> ExtractTaxRateFromName(Head(taxes).taxName),
            zimra_tax_type |-> NormalizeTaxType(Head(taxes).taxName)]>>
         \o OnePerValidEntry(c, Tail(taxes))
    ELSE OnePerValidEntry(c, Tail(taxes))

SyncSucceeded(l, r) == l.op = "sync_device_taxes" /\ r = TaxesSynced

\* C22: a successful sync_device_taxes leaves the configuration with exactly
\* one mapping per valid entry of the fetched device table, whatever mappings
\* it had before, and leaves the mappings of the other configurations as they
\* were; a second successful sync against the same table changes nothing.
C22_SyncReplaces ==
    [][SyncSucceeded(last', returned')
         => /\ MappingsOf(tax_mappings', arg'.config_id)
                 = OnePerValidEntry(arg'.config_id, device.applicableTaxes)
            /\ MappingsNotOf(tax_mappings', arg'.config_id)
                 = MappingsNotOf(tax_mappings, arg'.config_id)
            /\ (SyncSucceeded(last, returned) /\ arg.config_id = arg'.config_id)
               => tax_mappings' = tax_mappings]_vars

C22_Witness ==
    /\ SyncSucceeded(last, returned)
    /\ arg.deleted > 0
    /\ MappingsNotOf(tax_mappings, arg.config_id) # <<>>
    /\ \E i \in DOMAIN device.applicableTaxes : ~ValidEntry(device.applicableTaxes[i])
    /\ MappingsOf(tax_mappings, arg.config_id) # <<>>

\* the requests among the events of `http`
Requests == {i \in DOMAIN http : http[i].event = "request"}

WireOps == {"send_fiscal_data", "save_taxmapping", "save_currencymapping"}

\* C23: for every signed request (invoice, credit note, status poll,
\* tax-mapping and currency-mapping push) the string given to the signer is
\* the string transmitted as the body, and X-Api-Signature is
\* base64(HMAC-SHA256(api_secret, body)) of that body.
C23_SignedIsSent ==
    \A i \in Requests :
        /\ http[i].signed = http[i].body
        /\ http[i].signature = [base64 |-> [hmac_sha256 |-> <<ApiSecret, http[i].body>>]]

C23_Witness ==
    /\ last.op = "send_fiscal_data"
    /\ Cardinality(Requests) = 2
    /\ arg.data.type = "str"
    /\ arg.data.text # http[1].body
    /\ \A i \in Requests : http[i].signed = http[i].body

\* the dict send_fiscal_data reads out of its data
PreviewOf(data) == IF data.type = "str" THEN JsonLoads(data.text) ELSE data.dict

\* two dicts equal as JSON objects: the same items, in whatever order
SameObject(d1, d2) == {d1[i] : i \in DOMAIN d1} = {d2[i] : i \in DOMAIN d2}

Submitted(l, h) == l.op = "send_fiscal_data" /\ h # <<>>

\* C24: signing is canonical: two payloads that are equal as JSON objects and
\* differ in the insertion order of their keys are submitted with the same
\* request body (the keys sorted) and the same signature.
C24_CanonicalBody ==
    [][(Submitted(last, http) /\ Submitted(last', http')
          /\ SameObject(PreviewOf(arg.data), PreviewOf(arg'.data)))
         => /\ http'[1].body = http[1].body
            /\ http'[1].signature = http[1].signature
            /\ http'[1].body = JsonDumps(SortKeys(PreviewOf(arg'.data)), ",", ":", FALSE)]_vars

\* C25: send_fiscal_data polls POST /status, with the token the submission
\* returned, only after the submission POST succeeded and after the delay of
\* six seconds; it hands its caller the poll's result and never the token; when
\* the submission POST fails there is no poll and the error reaches the caller.
C25_PollAfterSubmission ==
    last.op = "send_fiscal_data"
    => /\ \A i \in Requests :
             http[i].route = "/status"
             => /\ i = 3
                /\ http[1].event = "request" /\ http[1].route = arg.route
                /\ http[1].answer.outcome = "ok"
                /\ http[2].event = "sleep" /\ http[2].seconds = 6
                /\ http[3].body = JsonDumpsList(<<Strip(http[1].answer.text)>>)
       /\ returned.kind # "token"
       /\ (http # <<>> /\ ~last.raised)
          => (Len(http) = 3 /\ returned = PollResult(http[3].answer.json))
       /\ (http # <<>> /\ http[1].answer.outcome # "ok")
          => (Len(http) = 1 /\ last.raised)

C25_Witness ==
    /\ last.op = "send_fiscal_data"
    /\ Len(http) = 3
    /\ http[1].answer.text # Strip(http[1].answer.text)
    /\ returned = PollResult(RespGood)

\* the steps that build a payload, and the payload built
BuildOps == {"move_build", "pos_build"}
HasPayload == last.op \in BuildOps /\ returned.kind = "payload"
IsCreditNote(invoice_data) == "CreditNoteId" \in DOMAIN invoice_data
IsInvoiceShape(invoice_data) == "InvoiceId" \in DOMAIN invoice_data

\* C26: in every credit-note payload (invoice refunds and POS refund orders)
\* SubTotal, TotalTax, Total and each line's UnitAmount, Quantity, LineAmount and
\* DiscountAmount are >= 0, whatever the signs of the document's amounts.
C26_CreditNoteNonNegative ==
    (HasPayload /\ IsCreditNote(returned.data))
    => /\ returned.data.SubTotal.units >= 0
       /\ returned.data.TotalTax.units >= 0
       /\ returned.data.Total.units >= 0
       /\ \A i \in DOMAIN returned.data.LineItems :
             LET item == returned.data.LineItems[i]
             IN  /\ item.UnitAmount.units >= 0
                 /\ item.Quantity.units >= 0
                 /\ item.LineAmount.units >= 0
                 /\ item.DiscountAmount.units >= 0

\* C27: for every line item of every payload (invoice builder and POS builder,
\* with or without tax on the line) LineAmount is UnitAmount x Quantity less
\* DiscountAmount, rounded to 2 decimals.
C27_LineAmountIdentity ==
    HasPayload
    => \A i \in DOMAIN returned.data.LineItems :
          LET item == returned.data.LineItems[i]
              gross == Mul(ParseFloat(item.UnitAmount), ParseFloat(item.Quantity))
          IN  item.LineAmount.units
                 \in Nearest(Sub(gross, ParseFloat(item.DiscountAmount)), 100)

\* C28: a payload of CreditNote shape is posted to /creditnote and a payload of
\* Invoice shape to /invoice, for every document name and type, and a POS order
\* with a negative total is emitted in CreditNote shape.
C28_ShapeMatchesEndpoint ==
    HasPayload
    => /\ IsCreditNote(returned.data) => returned.endpoint = "/creditnote"
       /\ IsInvoiceShape(returned.data) => returned.endpoint = "/invoice"
       /\ (arg.model = PosModel /\ PosAmountTotal(arg).n < 0) => IsCreditNote(returned.data)

\* the receipt-level discount lines of the order in `arg` and its other lines,
\* with what each is worth
DiscountLineTotal ==
    Sum([i \in DOMAIN arg.lines |->
            IF IsReceiptDiscountLine(arg.lines[i])
            THEN Abs(PriceSubtotalIncl(arg.lines[i])) ELSE Zero])
ProductAmounts ==
    LET product_lines == SelectSeq(arg.lines, LAMBDA line : ~IsReceiptDiscountLine(line))
    IN  [i \in DOMAIN product_lines |-> PriceSubtotalIncl(product_lines[i])]

\* two amounts less than half a cent apart
SameToTheCent(a, b) == LET gap == Abs(Sub(a, b)) IN gap.n * 200 < gap.d

\* the shares add up to the receipt-level discount and each is to the discount
\* as its line is to the product lines' total
Conserved ==
    /\ Len(returned.shares) = Len(ProductAmounts)
    /\ SameToTheCent(Sum(returned.shares), DiscountLineTotal)
    /\ \A i \in DOMAIN returned.shares :
          Mul(returned.shares[i], Sum(ProductAmounts))
             = Mul(DiscountLineTotal, ProductAmounts[i])

\* C30 as stated: in the POS builder, when the order has at least one product
\* line, the receipt-discount shares merged into the lines' DiscountAmount add
\* up to the total of the receipt-level discount lines (to the cent) and each
\* line's share is proportional to its share of the pre-discount subtotal.
C30_DiscountConserved ==
    (HasPayload /\ last.op = "pos_build" /\ ProductAmounts # <<>>) => Conserved

\* C30, amended: the same, when the product lines' pre-discount total is not zero.
C30_DiscountConservedOverNonZeroTotal ==
    (HasPayload /\ last.op = "pos_build" /\ Sum(ProductAmounts) # Zero) => Conserved

C30_Witness ==
    /\ HasPayload /\ last.op = "pos_build"
    /\ Len(ProductAmounts) = 2
    /\ ProductAmounts[1] # ProductAmounts[2]
    /\ DiscountLineTotal = Cents(10)
    /\ returned.shares[1] # returned.shares[2]
    /\ Sum(returned.shares) = DiscountLineTotal

\* C29: a write() on a POS order whose zimra_attempted marker is already set
\* never starts a submission, and the field writes of a write-triggered
\* submission never start a nested one: one top-level write() calls
\* _send_to_zimra and send_fiscal_data at most once per order.
C29_WriteSubmitsOnce ==
    [][last'.op = "pos_write"
         => \A d \in DocIds :
               /\ last'.sends[d] <= 1
               /\ last'.calls[d] <= 1
               /\ (d \in DOMAIN docs /\ docs[d].zimra_attempted)
                  => (last'.sends[d] = 0 /\ last'.calls[d] = 0)]_vars

C29_Witness ==
    /\ last.op = "pos_write"
    /\ last.pre = "pending"
    /\ last.sends[last.doc] = 1
    /\ last.calls[last.doc] = 1
    /\ docs[last.doc].zimra_attempted
    /\ docs[last.doc].zimra_status = "fiscalized"
    /\ docs[last.doc].zimra_retry_count = 1

(***************************************************************************)
(* C31.  normalize_tax_type answers every tax name with one of the four    *)
(* categories: the value of the entry the name equals, else the value of   *)
(* an entry it equals apart from case and surrounding blanks, else Exempt  *)
(* when no entry and no keyword matches, and Non-VAT Withholding Tax for   *)
(* every name that contains "withholding" and equals no entry.             *)
(***************************************************************************)
Normalized == last.op = "normalize_tax_type"

\* the name as the case-insensitive comparison reads it
Folded(words) == StripText(LowerText(Join(words)))

\* the entries of `mapping` the name equals apart from case and blanks
EntriesAlike(words) ==
    {i \in DOMAIN TaxTypeMapping :
        StripText(LowerText(TaxTypeMapping[i].key)) = Folded(words)}

Keywords == {<<"1", "5">>, <<"s", "t", "a", "n", "d", "a", "r", "d">>,
             <<"z", "e", "r", "o">>, <<"0", "%">>,
             <<"e", "x", "e", "m", "p", "t">>,
             <<"w", "i", "t", "h", "h", "o", "l", "d", "i", "n", "g">>}

NamesWithholding(words) ==
    Contains(Folded(words), <<"w", "i", "t", "h", "h", "o", "l", "d", "i", "n", "g">>)

C31_NormalizeTaxType ==
    Normalized =>
        /\ returned \in TaxTypes
        /\ \A i \in DOMAIN TaxTypeMapping :
              TaxTypeMapping[i].key = Join(arg) => returned = TaxTypeMapping[i].value
        /\ \A i \in EntriesAlike(arg) : returned = TaxTypeMapping[i].value
        /\ (EntriesAlike(arg) = {} /\ \A k \in Keywords : ~Contains(Folded(arg), k))
              => returned = "Exempt"
        /\ (EntriesAlike(arg) = {} /\ NamesWithholding(arg))
              => returned = "Non-VAT Withholding Tax"

\* the parts of C31 that do not depend on the order of the keywords
C31_RangeAndEntries ==
    Normalized =>
        /\ returned \in TaxTypes
        /\ \A i \in EntriesAlike(arg) : returned = TaxTypeMapping[i].value
        /\ (EntriesAlike(arg) = {} /\ \A k \in Keywords : ~Contains(Folded(arg), k))
              => returned = "Exempt"

\* a name with "withholding" alone among the keywords is a withholding tax
C31_WithholdingAlone ==
    (Normalized /\ EntriesAlike(arg) = {} /\ NamesWithholding(arg)
       /\ \A k \in Keywords : Contains(Folded(arg), k) => k[1] = "w")
        => returned = "Non-VAT Withholding Tax"

(***************************************************************************)
(* C32.  A document that was fiscalized and not reset by button_draft      *)
(* since (zimra_fiscalized_date is set by the fiscalization alone and      *)
(* cleared by the reset alone) is never put on the network again: no       *)
(* handler sends a request for it.                                         *)
(***************************************************************************)
FiscalizedNotReset(d) == d \in DOMAIN docs /\ docs[d].zimra_fiscalized_date = TRUE

C32_NoSendAfterFiscalized ==
    [][\A d \in DocIds : FiscalizedNotReset(d) => last'.calls[d] = 0]_vars

\* the same for the documents that still read fiscalized when the handler starts
C32_NoSendWhileFiscalized ==
    [][\A d \in DocIds :
          (d \in DOMAIN docs /\ docs[d].zimra_status = "fiscalized") => last'.calls[d] = 0]_vars

(***************************************************************************)
(* C33.  One action_retry_fiscalization on a failed POS order puts at most *)
(* one request on the network and raises zimra_retry_count by at most 1,   *)
(* with the zimra_attempted marker set or unset beforehand.                *)
(***************************************************************************)
C33_RetrySubmitsOnce ==
    [][(last'.op = "pos_action_retry" /\ last'.pre = "failed")
         => \A d \in DOMAIN docs :
               /\ last'.calls[d] <= 1
               /\ docs'[d].zimra_retry_count <= docs[d].zimra_retry_count + 1]_vars

\* the same for the orders whose marker is set when the retry starts
C33_RetrySubmitsOnceWhenAttempted ==
    [][(last'.op = "pos_action_retry" /\ last'.pre = "failed"
          /\ docs[last'.doc].zimra_attempted)
         => \A d \in DOMAIN docs :
               /\ last'.calls[d] <= 1
               /\ docs'[d].zimra_retry_count <= docs[d].zimra_retry_count + 1]_vars

(***************************************************************************)
(* C34.  A POS order that a write() brings into state paid, done or        *)
(* invoiced, with a real name and under an active configuration, has had   *)
(* a request put on the network by the end of that write (zimra_retry_count*)
(* counts the earlier ones), also when it was created as a draft.          *)
(***************************************************************************)
FinalStates == {"paid", "done", "invoiced"}

WrittenIntoFinal(d) ==
    /\ last'.op = "pos_write"
    /\ last'.doc = d
    /\ d \in DOMAIN docs
    /\ docs[d].state \notin FinalStates
    /\ docs'[d].state \in FinalStates
    /\ docs'[d].name \notin {"", "/"}
    /\ config.active

C34_PaidOrderSubmitted ==
    [][\A d \in DocIds :
          WrittenIntoFinal(d)
             => (last'.calls[d] >= 1 \/ docs[d].zimra_retry_count >= 1)]_vars

\* the same for the orders that are pending when the write starts
C34_PendingPaidOrderSubmitted ==
    [][\A d \in DocIds :
          (WrittenIntoFinal(d) /\ docs[d].zimra_status = "pending")
             => (last'.calls[d] >= 1 \/ docs[d].zimra_retry_count >= 1)]_vars

(***************************************************************************)
(* C35.  create() and write() on a POS order put a request on the network  *)
(* only under an active configuration whose auto_fiscalize flag is set.    *)
(***************************************************************************)
C35_AutomaticOnlyWhenEnabled ==
    [][(last'.op \in {"pos_create", "pos_write"} /\ ~(config.active /\ config.auto_fiscalize))
         => \A d \in DocIds : last'.calls[d] = 0]_vars

\* the same for create() alone
C35_CreateOnlyWhenEnabled ==
    [][(last'.op = "pos_create" /\ ~(config.active /\ config.auto_fiscalize))
         => \A d \in DocIds : last'.calls[d] = 0]_vars

(***************************************************************************)
(* C36.  For a POS refund order, all of whose lines have negative amounts, *)
(* every refunded product line (a line without a discount keyword in its   *)
(* name) is one line item of the payload, so LineItems is not empty when   *)
(* the order has product lines.                                            *)
(***************************************************************************)
IsRefundOrder ==
    /\ arg.model = PosModel
    /\ arg.lines # <<>>
    /\ \A i \in DOMAIN arg.lines : PriceSubtotalIncl(arg.lines[i]).n < 0

RefundedProductLines == SelectSeq(arg.lines, LAMBDA line : ~HasDiscountWord(line.name))

C36_RefundLinesAreLineItems ==
    (HasPayload /\ last.op = "pos_build" /\ IsRefundOrder)
        => /\ Len(returned.data.LineItems) = Len(RefundedProductLines)
           /\ (RefundedProductLines # <<>> => returned.data.LineItems # <<>>)

\* what the builder does with a refund order: it has no line items at all
C36_RefundHasNoLineItems ==
    (HasPayload /\ last.op = "pos_build" /\ IsRefundOrder)
        => returned.data.LineItems = <<>>

(***************************************************************************)
(* C37.  A sync_device_taxes that reports "Sync Failed" leaves the         *)
(* configuration with the tax mappings it had before the call.             *)
(***************************************************************************)
MappingSet(tbl, c) == {MappingsOf(tbl, c)[i] : i \in DOMAIN MappingsOf(tbl, c)}

SyncReportedFailure == last'.op = "sync_device_taxes" /\ returned' = SyncFailed

C37_FailedSyncKeepsMappings ==
    [][SyncReportedFailure
         => MappingSet(tax_mappings', arg'.config_id) = MappingSet(tax_mappings, arg'.config_id)]_vars

\* the same for the failures before the loop: nothing fetched, or an empty list
C37_FailedFetchKeepsMappings ==
    [][(SyncReportedFailure /\ GetDeviceTaxes(device).taxes = <<>>)
         => tax_mappings' = tax_mappings]_vars

\* the half of C37 about deletion: a failed sync deletes no mapping
C37_FailedSyncDeletesNothing ==
    [][SyncReportedFailure
         => MappingSet(tax_mappings, arg'.config_id) \subseteq MappingSet(tax_mappings', arg'.config_id)]_vars

(***************************************************************************)
(* C38.  The IsRetry flag of a payload put on the network is true exactly  *)
(* when a request was made for the same document before.  Every submission *)
(* creates the document's zimra.invoice row right before its request and   *)
(* no step of this specification deletes a row, so a request was made in   *)
(* an earlier handler exactly when the document has a row.                 *)
(***************************************************************************)
SubmittedBefore(d) == \E i \in DOMAIN logs : logs[i].doc = d

C38_IsRetryIffSubmittedBefore ==
    [][\A d \in DocIds : \A i \in DOMAIN last'.flags[d] :
          last'.flags[d][i] = (i > 1 \/ SubmittedBefore(d))]_vars

\* one direction holds: a payload marked IsRetry follows an earlier request
C38_IsRetryOnlyAfterSubmission ==
    [][\A d \in DocIds : \A i \in DOMAIN last'.flags[d] :
          last'.flags[d][i] => (i > 1 \/ SubmittedBefore(d))]_vars

\* invoices that were never reset: the flag is exact
C38_IsRetryOfInvoiceNotReset ==
    [][\A d \in Moves : \A i \in DOMAIN last'.flags[d] :
          (docs[d].zimra_retry_count > 0 \/ ~SubmittedBefore(d))
             => last'.flags[d][i] = (i > 1 \/ SubmittedBefore(d))]_vars

(***************************************************************************)
(* C39.  The zimra_attempted marker of a POS order, once set, stays set    *)
(* through every handler, so the trigger of write() fires at most once for *)
(* an order: never in a handler that finds the marker set, at most once in *)
(* a handler that finds it unset, which leaves it set.  An order whose     *)
(* marker is set is put on the network again only by the manual actions,   *)
(* the log row's retry and the cron job.                                   *)
(***************************************************************************)
ResubmittingOps == {"action_fiscalize_manual", "pos_action_retry", "log_action_retry", "pos_cron"}

C39_MarkerIsSticky ==
    [][\A d \in DocIds :
          /\ last'.fired[d] <= 1
          /\ last'.fired[d] = 1 => docs'[d].zimra_attempted
          /\ (d \in DOMAIN docs /\ docs[d].zimra_attempted)
                => /\ docs'[d].zimra_attempted
                   /\ last'.fired[d] = 0
                   /\ last'.calls[d] > 0 => last'.op \in ResubmittingOps]_vars

\* an order whose marker was set by an earlier handler is retried by hand and
\* submitted again, and the marker is still set
C39_Witness ==
    /\ last.op = "pos_action_retry"
    /\ last.pre = "failed"
    /\ last.fired[last.doc] = 0
    /\ last.calls[last.doc] = 1
    /\ docs[last.doc].zimra_attempted
    /\ docs[last.doc].zimra_retry_count >= 2

====
